---- MODULE Spec2Model ----
(***************************************************************************)
(* Zen Drive, procedural world streaming: the terrain streamer             *)
(* (class TerrainSystem) as a state machine.                               *)
(*                                                                         *)
(* Representation.  A chunk coordinate c is held as the integer            *)
(* c * chunkWorldSize, which is the chunk's world origin (chunk.worldX).   *)
(* getRequiredChunks steps the coordinate by 1 from camChunk - maxDistance *)
(* with maxDistance = renderDistance / chunkWorldSize, so in this scale it *)
(* steps by chunkWorldSize from camWorld - renderDistance, and fractional  *)
(* coordinates (renderDistance not a multiple of chunkWorldSize) stay      *)
(* integers.  A key `${x},${z}` is the pair <<x, z>> of scaled             *)
(* coordinates; an integer grid key is a pair of multiples of              *)
(* chunkWorldSize.  Distances are compared by their squares.               *)
(*                                                                         *)
(* Chunk objects have identity: heap[id] is the object, the chunks map and *)
(* chunkPool hold ids.  loadedChunks is a JavaScript Set, iterated in      *)
(* insertion order, so it is a sequence without duplicates.                *)
(***************************************************************************)
EXTENDS Integers, Sequences, FiniteSets, TLC

VARIABLES
    chunkSize,       \* this.chunkSize
    renderDistance,  \* this.renderDistance
    settings,        \* this.settings
    heap,            \* the chunk objects ever allocated, by identity
    chunks,          \* this.chunks: key -> chunk object (id)
    chunkPool,       \* this.chunkPool: array of chunk objects (ids)
    loadedChunks,    \* this.loadedChunks: Set of keys, in insertion order
    visibleChunks,   \* this.visibleChunks: Set of keys
    gl,              \* the WebGL context: buffers created, deleteBuffer calls, lost
    last,            \* the last call: its name, arguments, log and prior state
    highWater,       \* the largest number of chunks loaded at once so far
    calls,           \* number of calls made so far
    road,            \* the RoadSystem object, with the buffer objects it made
    roadLast,        \* the last RoadSystem call: name, arguments, log, prior road
    roadCalls,       \* number of RoadSystem calls made so far
    noise,           \* the noise objects under test (two built from one seed)
    noiseLast,       \* the last sampling call: receiver, name, arguments, result
    mesh             \* the chunk geometry under test

terrainVars == <<chunkSize, renderDistance, settings, heap, chunks, chunkPool,
                 loadedChunks, visibleChunks, gl, last, highWater, calls>>

roadVars == <<road, roadLast, roadCalls>>

noiseVars == <<noise, noiseLast>>

vars == <<terrainVars, roadVars, noiseVars, mesh>>

\* ------------------------------------------------------------------ bounds

MaxCalls == 3

\* calls made on the road in one behaviour
MaxRoadCalls == 2

\* ------------------------------------------------------- program constants

chunkWorldSize == 500
lodLevels == 4
initialRadius == 2
DefaultChunkSize == 128
DefaultRenderDistance == 2000
MinResolution == 8

\* ------------------------------------------------------------------ inputs

Null == [null |-> TRUE]

\* Vehicle positions handed to update (world x, y, z).
Anchors == { <<0, 0, 0>>, <<600, 10, -100>>, <<-1300, 40, 2600>> }

\* Frustum planes handed to update: none, or a list of [a, b, c, d] planes.
PlaneSets == { Null,
               [planes |-> << <<1, 0, 0, 400>>, <<0, -1, 0, 60>> >>] }

\* Render distances the graphics settings apply (parseInt of a slider value).
RenderDistances == { 500, 750, 1000 }

\* Settings objects handed to updateSettings; the last three are misuse
\* (a zero or negative chunk size, zero LOD levels).
SettingsInputs == { [chunkSize |-> 64],
                    [chunkSize |-> 128],
                    [chunkSize |-> 0],
                    [chunkSize |-> -64],
                    [lodLevels |-> 0],
                    [enableFrustumCulling |-> FALSE],
                    [enableDistanceCulling |-> FALSE],
                    [autoLOD |-> FALSE] }

\* ----------------------------------------------------------------- helpers

Min(a, b) == IF a <= b THEN a ELSE b
Max(a, b) == IF a >= b THEN a ELSE b

Range(s) == { s[i] : i \in 1..Len(s) }

\* Math.floor(v / d) for d > 0
FloorDiv(v, d) == v \div d

\* Squared distance of two 3-vectors (Vec3.distance, before the square root)
Dist2(a, b) == (a[1] - b[1]) * (a[1] - b[1]) + (a[2] - b[2]) * (a[2] - b[2])
               + (a[3] - b[3]) * (a[3] - b[3])

Dot(a, b) == a[1] * b[1] + a[2] * b[2] + a[3] * b[3]

\* The receiver: every field of the TerrainSystem and of its GL context,
\* with the log of the operations of the call in progress.
This == [chunkSize |-> chunkSize, renderDistance |-> renderDistance,
         settings |-> settings, heap |-> heap, chunks |-> chunks,
         chunkPool |-> chunkPool, loadedChunks |-> loadedChunks,
         visibleChunks |-> visibleChunks, gl |-> gl, log |-> <<>>]

getChunkKey(x, z) == <<x, z>>

\* The sampled height range of a chunk.  The noise field is a fixed total
\* function of the world position; only the minimum and maximum over the
\* chunk's resolution x resolution samples reach the streamer (the bounds).
\* It is held here as a fixed function of the chunk origin and resolution.
HeightRange(worldX, worldZ, resolution) ==
    LET a == FloorDiv(worldX, 250)
        b == FloorDiv(worldZ, 250)
        lo == 20 * ((a + 2 * b) % 4) - 20
        span == 80 * ((a * a + b) % 5) + 2 * (resolution % 3)
    IN  [minY |-> lo, maxY |-> lo + span]

\* A for loop over a list runs the body on each element in order.  The
\* loops below split the list in two and run the halves one after the
\* other, which is the same left-to-right order; the state after the first
\* half is evaluated before the second half starts (TLC evaluates operator
\* arguments lazily, and a loop of 49 chunks would nest 49 deep otherwise).
FirstHalf(s) == SubSeq(s, 1, Len(s) \div 2)
SecondHalf(s) == SubSeq(s, Len(s) \div 2 + 1, Len(s))
Evaluated(t) == DOMAIN t # {}

\* const x = v; followed by the statements F(x): v is computed once and
\* its value is what the name x stands for in the statements after it
Bind(v, F(_)) == CHOOSE r \in { F(x) : x \in {v} } : TRUE

\* ------------------------------------------------------ fixed-point numbers

\* Noise coordinates and values are JavaScript numbers; they are held here in
\* fixed point, One standing for 1.0, rounded down after every product.
One == 10000

Abs(a) == IF a < 0 THEN -a ELSE a

\* a * b of two fixed-point numbers, split so that no partial product
\* leaves 32 bits
Mul(a, b) ==
    LET ah == a \div One
        al == a % One
        bh == b \div One
        bl == b % One
    IN  ah * bh * One + ah * bl + al * bh + (al * bl) \div One

\* a / b of two fixed-point numbers
Div(a, b) == (a * One) \div b

\* Math.floor of a fixed-point number, as an integer
Floor(a) == a \div One

\* --------------------------------------------------------- NoiseGenerator

\* The closure returned by seededRandom computes x - floor(x) for
\* x = sin(state) * 10000: a number in [0, 1) that is a fixed function of
\* the closure's state.  The sine is not computable here; a fixed integer
\* hash of the state stands for it.
SinFraction(state) == ((state % 9973) * 7919 + (state \div 9973) * 613 + 4801) % One

\* the Fisher-Yates loop of generatePermutation for i = hi down to lo; the
\* closure's state at iteration i is seed + (255 - i).  perm[i] of the code
\* is perm[i + 1] here.
RECURSIVE shuffle(_, _, _, _)
shuffle(perm, seed, hi, lo) ==
    IF hi < lo THEN perm
    ELSE IF hi = lo
    THEN LET i == hi
             j == Floor(SinFraction(seed + (255 - i)) * (i + 1))
         IN  [perm EXCEPT ![i + 1] = perm[j + 1], ![j + 1] = perm[i + 1]]
    ELSE LET mid == (hi + lo) \div 2
             t == shuffle(perm, seed, hi, mid + 1)
         IN  IF Evaluated(t) THEN shuffle(t, seed, mid, lo) ELSE t

\* Mutant: the copy into the upper half is one entry off.
generatePermutation_CopyShifted(seed) ==
    LET perm == shuffle([i \in 1..256 |-> i - 1], seed, 255, 1)
    IN  [i \in 1..512 |-> IF i <= 256 THEN perm[i] ELSE perm[(i % 256) + 1]]

generatePermutation(seed) ==
    LET perm == shuffle([i \in 1..256 |-> i - 1], seed, 255, 1)
    IN  [i \in 1..512 |-> perm[((i - 1) % 256) + 1]]

\* generateGradients: entry i is the unit vector of angle i / 256 of a turn,
\* held as i
generateGradients == [i \in 1..256 |-> i - 1]

\* new NoiseGenerator(seed)
NoiseGenerator(seed) ==
    [seed |-> seed,
     gradients |-> generateGradients,
     permutation |-> generatePermutation(seed)]

fade(t) ==
    LET inner == Mul(t, 6 * t - 15 * One) + 10 * One
    IN  Mul(Mul(Mul(t, t), t), inner)

lerp(a, b, t) == a + Mul(t, b - a)

grad(hash, x, y) ==
    LET h == hash % 4
        u == IF h < 2 THEN x ELSE y
        v == IF h < 2 THEN y ELSE x
    IN  (IF h % 2 = 0 THEN u ELSE -u) + (IF (h \div 2) % 2 = 0 THEN v ELSE -v)

\* the table indices perlin2D reads for (x, y), in the order of the code
perlinIndices(this, x, y) ==
    LET p(i) == this.permutation[i + 1]
        X == Floor(x) % 256
        Y == Floor(y) % 256
        A == p(X) + Y
        B == p(X + 1) + Y
    IN  [X |-> X, X1 |-> X + 1, A |-> A, A1 |-> A + 1, B |-> B, B1 |-> B + 1,
         AA |-> p(A), AB |-> p(A + 1), BA |-> p(B), BB |-> p(B + 1)]

perlin2D(this, x0, y0) ==
    LET p(i) == this.permutation[i + 1] IN
    Bind(perlinIndices(this, x0, y0), LAMBDA ix :
    Bind(x0 - Floor(x0) * One, LAMBDA x :
    Bind(y0 - Floor(y0) * One, LAMBDA y :
    Bind(fade(x), LAMBDA u :
    Bind(fade(y), LAMBDA v :
        lerp(lerp(grad(p(ix.AA), x, y), grad(p(ix.BA), x - One, y), u),
             lerp(grad(p(ix.AB), x, y - One), grad(p(ix.BB), x - One, y - One), u),
             v))))))

\* the octave loop shared by octaveNoise2D, ridgedNoise2D and billow2D, from
\* iteration i on: what it adds to value and to maxValue
RECURSIVE octaveLoop(_, _, _, _, _, _, _, _, _)
octaveLoop(kind, this, x, y, i, octaves, persistence, amplitude, frequency) ==
    IF i >= octaves THEN [value |-> 0, maxValue |-> 0]
    ELSE Bind(perlin2D(this, Mul(x, frequency), Mul(y, frequency)), LAMBDA raw :
         Bind(IF kind = "ridged"
              THEN Mul(One - Abs(raw), One - Abs(raw))
              ELSE IF kind = "billow" THEN Abs(raw) ELSE raw, LAMBDA n :
         Bind(octaveLoop(kind, this, x, y, i + 1, octaves, persistence,
                         Mul(amplitude, persistence), 2 * frequency), LAMBDA rest :
              [value |-> Mul(n, amplitude) + rest.value,
               maxValue |-> amplitude + rest.maxValue])))

octaveNoise2D(this, x, y, octaves, persistence, scale) ==
    Bind(octaveLoop("octave", this, x, y, 0, octaves, persistence, One, scale),
         LAMBDA r : Div(r.value, r.maxValue))

ridgedNoise2D(this, x, y, octaves, persistence, scale) ==
    Bind(octaveLoop("ridged", this, x, y, 0, octaves, persistence, One, scale),
         LAMBDA r : Div(r.value, r.maxValue))

billow2D(this, x, y, octaves, persistence, scale) ==
    Bind(octaveLoop("billow", this, x, y, 0, octaves, persistence, One, scale),
         LAMBDA r : Div(r.value, r.maxValue))

\* ------------------------------------------------------------- BiomeNoise

\* new BiomeNoise(seed)
BiomeNoise(seed) ==
    [temperature |-> NoiseGenerator(seed),
     humidity |-> NoiseGenerator(seed + 1000),
     elevation |-> NoiseGenerator(seed + 2000),
     density |-> NoiseGenerator(seed + 3000)]

\* The coordinate factors 0.001, 0.0008, ... of the code are 10, 8, ... in
\* fixed point.
getTemperature(this, x, y) ==
    octaveNoise2D(this.temperature, Mul(x, 10), Mul(y, 10), 3, 6000, One)

getHumidity(this, x, y) ==
    octaveNoise2D(this.humidity, Mul(x, 8), Mul(y, 8), 3, 5000, One)

getElevation(this, x, y) ==
    LET base == octaveNoise2D(this.elevation, Mul(x, 5), Mul(y, 5), 6, 7000, One)
        ridged == ridgedNoise2D(this.elevation, Mul(x, 20), Mul(y, 20), 4, 4000, One)
    IN  Mul(base, 7000) + Mul(ridged, 3000)

getDensity(this, x, y) ==
    octaveNoise2D(this.density, Mul(x, 30), Mul(y, 30), 4, 5000, One)

\* Mutant: the city test is made before the forest test.
biomeOf_CityFirst(temp, humidity, elevation) ==
    IF elevation > 6000 THEN "mountain"
    ELSE IF temp < -3000 THEN "mountain"
    ELSE IF humidity < -3000 /\ temp > 2000 THEN "desert"
    ELSE IF elevation < 1000 /\ Abs(temp) < 3000 THEN "city"
    ELSE IF humidity > 4000 /\ temp > -1000 THEN "forest"
    ELSE "plains"

\* the if / else-if chain of getBiome on the three channel values
biomeOf(temp, humidity, elevation) ==
    IF elevation > 6000 THEN "mountain"
    ELSE IF temp < -3000 THEN "mountain"
    ELSE IF humidity < -3000 /\ temp > 2000 THEN "desert"
    ELSE IF humidity > 4000 /\ temp > -1000 THEN "forest"
    ELSE IF elevation < 1000 /\ Abs(temp) < 3000 THEN "city"
    ELSE "plains"

getBiome(this, x, y) ==
    Bind(getTemperature(this, x, y), LAMBDA temp :
    Bind(getHumidity(this, x, y), LAMBDA humidity :
    Bind(getElevation(this, x, y), LAMBDA elevation :
        biomeOf(temp, humidity, elevation))))

\* this.biomes of the TerrainSystem: the id of each biome label
biomes == [plains |-> 0, forest |-> 1, desert |-> 2, mountain |-> 3, city |-> 4]

\* this.biomes[biome] ? this.biomes[biome].id : 0
biomeIdOf(biome) == IF biome \in DOMAIN biomes THEN biomes[biome] ELSE 0

getBlendedHeight(this, x, y, biome) ==
    LET e == this.elevation IN
    Bind(getElevation(this, x, y), LAMBDA elevation :
        CASE biome = "mountain" ->
               elevation * 200
               + ridgedNoise2D(e, Mul(x, 50), Mul(y, 50), 3, 5000, One) * 100
          [] biome = "desert" ->
               elevation * 50
               + billow2D(e, Mul(x, 80), Mul(y, 80), 2, 5000, One) * 30
          [] biome = "forest" ->
               elevation * 80
               + octaveNoise2D(e, Mul(x, 100), Mul(y, 100), 2, 5000, One) * 20
          [] biome = "city" -> Max(0, elevation * 20)
          [] OTHER ->
               elevation * 60
               + octaveNoise2D(e, Mul(x, 30), Mul(y, 30), 3, 5000, One) * 15)

\* TerrainSystem.getHeightAt and getBiomeAt, on the terrain's biomeNoise
getHeightAt(biomeNoise, x, z) ==
    Bind(getBiome(biomeNoise, x, z), LAMBDA biome :
        getBlendedHeight(biomeNoise, x, z, biome))

getBiomeAt(biomeNoise, x, z) == getBiome(biomeNoise, x, z)

\* ------------------------------------------------------------- chunk pool

\* the object literal of getChunkFromPool
FreshChunk == [x |-> 0, z |-> 0, lod |-> 0, worldX |-> 0, worldZ |-> 0,
               vertices |-> Null, indices |-> Null, buffers |-> Null,
               transform |-> Null, bounds |-> Null, visible |-> FALSE,
               vertexCount |-> 0, indexCount |-> 0, triangleCount |-> 0]

\* Mutant: the pool is never consulted, every request allocates.
getChunkFromPool_AlwaysAllocates(this) ==
    [this |-> [this EXCEPT !.heap = Append(@, FreshChunk),
                           !.log = Append(@, <<"alloc", Len(this.heap) + 1>>)],
     id |-> Len(this.heap) + 1]

\* getChunkFromPool: pop a pooled object, or allocate one.  Yields the new
\* receiver state and the object's identity.
getChunkFromPool(this) ==
    IF Len(this.chunkPool) > 0
    THEN [this |-> [this EXCEPT !.chunkPool = SubSeq(@, 1, Len(@) - 1)],
          id |-> this.chunkPool[Len(this.chunkPool)]]
    ELSE [this |-> [this EXCEPT !.heap = Append(@, FreshChunk),
                                !.log = Append(@, <<"alloc", Len(this.heap) + 1>>)],
          id |-> Len(this.heap) + 1]

returnChunkToPool(this, id) ==
    [this EXCEPT !.heap[id].vertices = Null,
                 !.heap[id].indices = Null,
                 !.heap[id].buffers = Null,
                 !.heap[id].visible = FALSE,
                 !.chunkPool = Append(@, id)]

\* ------------------------------------------------------------- generation

\* Math.max(8, this.chunkSize >> chunk.lod); >> is the arithmetic shift,
\* the floor of the division by 2^lod, also for a negative chunkSize
Resolution(size, lod) == Max(MinResolution, size \div (2 ^ lod))

\* generateChunkGeometry: the fields it assigns to the chunk object
generateChunkGeometry(this, chunk) ==
    LET resolution == Resolution(this.chunkSize, chunk.lod)
        h == HeightRange(chunk.worldX, chunk.worldZ, resolution)
        half == chunkWorldSize \div 2
        nVertices == resolution * resolution
        nIndices == (resolution - 1) * (resolution - 1) * 6
    IN  [chunk EXCEPT
            !.vertices = [length |-> nVertices * 9],
            !.indices = [length |-> nIndices],
            !.vertexCount = nVertices,
            !.indexCount = nIndices,
            !.triangleCount = nIndices \div 3,
            !.bounds = [center |-> <<chunk.worldX + half, (h.minY + h.maxY) \div 2,
                                     chunk.worldZ + half>>,
                        extents |-> <<half, (h.maxY - h.minY) \div 2, half>>,
                        min |-> <<chunk.worldX, h.minY, chunk.worldZ>>,
                        max |-> <<chunk.worldX + chunkWorldSize, h.maxY,
                                  chunk.worldZ + chunkWorldSize>>],
            !.transform = [identity |-> TRUE]]

\* A buffer object is a positive number; 0 is null.  gl.createBuffer hands
\* out a new buffer object, never handed out before, or null when the
\* context is lost.  Yields the new context state and the buffer.
glCreateBuffer(g) ==
    IF g.lost
    THEN [gl |-> g, buffer |-> 0]
    ELSE [gl |-> [g EXCEPT !.created = @ + 1, !.deletes = Append(@, 0)],
          buffer |-> g.created + 1]

\* gl.deleteBuffer(b): counted per buffer object; null is ignored
glDeleteBuffer(g, b) == IF b = 0 THEN g ELSE [g EXCEPT !.deletes[b] = @ + 1]

\* createChunkBuffers: two createBuffer calls, kept in chunk.buffers, with
\* no test of what they returned
createChunkBuffers(this, id) ==
    LET b1 == glCreateBuffer(this.gl)
        b2 == glCreateBuffer(b1.gl)
    IN  [this EXCEPT !.gl = b2.gl,
                     !.heap[id].buffers = [vertices |-> b1.buffer,
                                           indices |-> b2.buffer]]

\* Mutant: no early return for a key that is already loaded.
generateChunk_NoLoadedCheck(this, chunkX, chunkZ, lod) ==
    LET key == getChunkKey(chunkX, chunkZ)
        got == getChunkFromPool(this)
        id == got.id
        t1 == got.this
        chunk == [x |-> chunkX, z |-> chunkZ, lod |-> lod,
                  worldX |-> chunkX, worldZ |-> chunkZ, key |-> key]
                 @@ t1.heap[id]
        t2 == [t1 EXCEPT !.heap[id] = generateChunkGeometry(t1, chunk)]
        t3 == createChunkBuffers(t2, id)
    IN  [t3 EXCEPT !.chunks = (key :> id) @@ @,
                   !.loadedChunks = IF key \in Range(@) THEN @ ELSE Append(@, key),
                   !.log = Append(@, <<"generate", key, lod>>)]

generateChunk(this, chunkX, chunkZ, lod) ==
    LET key == getChunkKey(chunkX, chunkZ) IN
    IF key \in Range(this.loadedChunks)
    THEN this
    ELSE LET got == getChunkFromPool(this)
             id == got.id
             t1 == got.this
             \* worldX = chunkX * chunkWorldSize: the scaled coordinate itself
             chunk == [x |-> chunkX, z |-> chunkZ, lod |-> lod,
                       worldX |-> chunkX, worldZ |-> chunkZ, key |-> key]
                      @@ t1.heap[id]
             t2 == [t1 EXCEPT !.heap[id] = generateChunkGeometry(t1, chunk)]
             t3 == createChunkBuffers(t2, id)
         IN  [t3 EXCEPT !.chunks = (key :> id) @@ @,
                        !.loadedChunks = Append(@, key),
                        !.log = Append(@, <<"generate", key, lod>>)]

RECURSIVE generateEach(_, _)
generateEach(this, triples) ==
    IF triples = <<>> THEN this
    ELSE IF Len(triples) = 1
    THEN generateChunk(this, triples[1].x, triples[1].z, triples[1].lod)
    ELSE LET t == generateEach(this, FirstHalf(triples))
         IN  IF Evaluated(t) THEN generateEach(t, SecondHalf(triples)) ELSE t

\* The (x, z) pairs of a square of side 2 * radius, x outermost, stepping
\* the chunk coordinate by 1 (chunkWorldSize in the scaled coordinate).
Square(cx, cz, radius) ==
    LET n == ((2 * radius) \div chunkWorldSize) + 1
    IN  [i \in 1..(n * n) |->
            [x |-> cx - radius + ((i - 1) \div n) * chunkWorldSize,
             z |-> cz - radius + ((i - 1) % n) * chunkWorldSize]]

generateInitialChunks(this) ==
    LET sq == Square(0, 0, initialRadius * chunkWorldSize)
    IN  generateEach(this, [i \in 1..Len(sq) |->
                               [x |-> sq[i].x, z |-> sq[i].z, lod |-> 0]])

\* ---------------------------------------------------------------- update

\* Math.floor(distance / (maxDistance / lodLevels)) capped at lodLevels:
\* the number of k in 1..lodLevels with k * maxDistance / lodLevels <= distance,
\* compared by squares (d2 is the squared distance, both in the scaled unit).
LodBucket(d2, maxDistance) ==
    Cardinality({ k \in 1..lodLevels :
                    k * k * maxDistance * maxDistance <= d2 * lodLevels * lodLevels })

LodFor(this, d2, maxDistance) ==
    IF this.settings.autoLOD
    THEN Min(LodBucket(d2, maxDistance), lodLevels - 1)
    ELSE 0

\* getRequiredChunks: the { x, z, lod, distance } records in loop order
\* (distance kept as its square).
getRequiredChunks(this, cameraPosition) ==
    LET camChunkX == FloorDiv(cameraPosition[1], chunkWorldSize) * chunkWorldSize
        camChunkZ == FloorDiv(cameraPosition[3], chunkWorldSize) * chunkWorldSize
        maxDistance == this.renderDistance
        sq == Square(camChunkX, camChunkZ, maxDistance)
        D2(p) == (p.x - camChunkX) * (p.x - camChunkX)
                 + (p.z - camChunkZ) * (p.z - camChunkZ)
        inside == SelectSeq(sq, LAMBDA p : D2(p) <= maxDistance * maxDistance)
    IN  [i \in 1..Len(inside) |->
            [x |-> inside[i].x, z |-> inside[i].z,
             lod |-> LodFor(this, D2(inside[i]), maxDistance),
             distance2 |-> D2(inside[i])]]

\* Mutant: only the vertex buffer is deleted, the index buffer leaks.
unloadChunk_KeepsIndexBuffer(this, key) ==
    IF key \notin DOMAIN this.chunks
    THEN this
    ELSE LET id == this.chunks[key]
             chunk == this.heap[id]
             g == IF chunk.buffers # Null
                  THEN glDeleteBuffer(this.gl, chunk.buffers.vertices)
                  ELSE this.gl
             t1 == returnChunkToPool([this EXCEPT !.gl = g], id)
         IN  [t1 EXCEPT
                 !.chunks = [k \in (DOMAIN @) \ {key} |-> @[k]],
                 !.loadedChunks = SelectSeq(@, LAMBDA k : k # key),
                 !.visibleChunks = @ \ {key},
                 !.log = Append(@, <<"unload", key>>)]

unloadChunk(this, key) ==
    IF key \notin DOMAIN this.chunks
    THEN this
    ELSE LET id == this.chunks[key]
             chunk == this.heap[id]
             g == IF chunk.buffers # Null
                  THEN glDeleteBuffer(glDeleteBuffer(this.gl, chunk.buffers.vertices),
                                      chunk.buffers.indices)
                  ELSE this.gl
             t1 == returnChunkToPool([this EXCEPT !.gl = g], id)
         IN  [t1 EXCEPT
                 !.chunks = [k \in (DOMAIN @) \ {key} |-> @[k]],
                 !.loadedChunks = SelectSeq(@, LAMBDA k : k # key),
                 !.visibleChunks = @ \ {key},
                 !.log = Append(@, <<"unload", key>>)]

\* for (const key of this.loadedChunks): every key of the set is visited,
\* also when earlier iterations delete other keys
RECURSIVE unloadEach(_, _, _)
unloadEach(this, keys, keep) ==
    IF keys = <<>> THEN this
    ELSE IF Len(keys) = 1
    THEN (IF keys[1] \in keep THEN this ELSE unloadChunk(this, keys[1]))
    ELSE LET t == unloadEach(this, FirstHalf(keys), keep)
         IN  IF Evaluated(t) THEN unloadEach(t, SecondHalf(keys), keep) ELSE t

\* Mutant: keys exactly on the render radius are not kept.
unloadDistantChunks_Strict(this, cameraPosition, requiredChunks) ==
    LET requiredKeys == { getChunkKey(c.x, c.z) :
                            c \in { r \in Range(requiredChunks) :
                                      r.distance2 < this.renderDistance
                                                    * this.renderDistance } }
    IN  unloadEach(this, this.loadedChunks, requiredKeys)

unloadDistantChunks(this, cameraPosition, requiredChunks) ==
    LET requiredKeys == { getChunkKey(c.x, c.z) : c \in Range(requiredChunks) }
    IN  unloadEach(this, this.loadedChunks, requiredKeys)

\* Mutant: the box centre is tested instead of the positive vertex.
PlaneKeeps_CentreOnly(bounds, plane) ==
    ~ (Dot(plane, bounds.center) + plane[4] < 0)

\* the positive-vertex test of one plane [a, b, c, d] against a box
PlaneKeeps(bounds, plane) ==
    LET center == bounds.center
        extents == bounds.extents
        pv == [i \in 1..3 |-> IF plane[i] >= 0 THEN center[i] + extents[i]
                                               ELSE center[i] - extents[i]]
    IN  ~ (Dot(plane, pv) + plane[4] < 0)

isChunkInFrustum(bounds, planes) ==
    \A i \in 1..Len(planes) : PlaneKeeps(bounds, planes[i])

\* the value of `visible` that updateVisibility computes for one chunk
ChunkVisible(this, chunk, cameraPosition, frustumPlanes) ==
    LET chunkCenter == <<chunk.worldX + chunkWorldSize \div 2,
                         chunk.bounds.center[2],
                         chunk.worldZ + chunkWorldSize \div 2>>
        near == ~ (this.settings.enableDistanceCulling
                   /\ Dist2(cameraPosition, chunkCenter)
                        > this.renderDistance * this.renderDistance)
    IN  IF near /\ this.settings.enableFrustumCulling /\ frustumPlanes # Null
        THEN isChunkInFrustum(chunk.bounds, frustumPlanes.planes)
        ELSE near

updateVisibility(this, cameraPosition, frustumPlanes) ==
    LET vis(key) == ChunkVisible(this, this.heap[this.chunks[key]],
                                 cameraPosition, frustumPlanes)
        ids == { this.chunks[k] : k \in DOMAIN this.chunks }
        keyOf(id) == CHOOSE k \in DOMAIN this.chunks : this.chunks[k] = id
    IN  [this EXCEPT
            !.visibleChunks = { k \in DOMAIN this.chunks : vis(k) },
            !.heap = [id \in DOMAIN @ |->
                        IF id \in ids
                        THEN [@[id] EXCEPT !.visible = vis(keyOf(id))]
                        ELSE @[id]],
            !.log = Append(@, <<"visibility">>)]

\* the load loop of update: generate every required key not yet loaded
RECURSIVE loadNewChunks(_, _)
loadNewChunks(this, requiredChunks) ==
    IF requiredChunks = <<>> THEN this
    ELSE IF Len(requiredChunks) = 1
    THEN LET c == requiredChunks[1]
         IN  IF getChunkKey(c.x, c.z) \notin Range(this.loadedChunks)
             THEN generateChunk(this, c.x, c.z, c.lod)
             ELSE this
    ELSE LET t == loadNewChunks(this, FirstHalf(requiredChunks))
         IN  IF Evaluated(t) THEN loadNewChunks(t, SecondHalf(requiredChunks)) ELSE t

\* Mutant: required chunks are generated before distant ones are unloaded.
update_LoadsBeforeUnload(this, cameraPosition, frustumPlanes) ==
    LET requiredChunks == getRequiredChunks(this, cameraPosition)
        t1 == loadNewChunks(this, requiredChunks)
        t2 == unloadDistantChunks(t1, cameraPosition, requiredChunks)
    IN  updateVisibility(t2, cameraPosition, frustumPlanes)

update(this, cameraPosition, frustumPlanes) ==
    LET requiredChunks == getRequiredChunks(this, cameraPosition)
        t1 == unloadDistantChunks(this, cameraPosition, requiredChunks)
        t2 == loadNewChunks(t1, requiredChunks)
    IN  updateVisibility(t2, cameraPosition, frustumPlanes)

\* -------------------------------------------------------------- settings

\* Object.assign(target, source)
ObjectAssign(target, source) ==
    [k \in (DOMAIN target) \cup (DOMAIN source) |->
        IF k \in DOMAIN source THEN source[k] ELSE target[k]]

regenerateAllChunks(this) ==
    generateInitialChunks(unloadEach(this, this.loadedChunks, {}))

updateSettings(this, s) ==
    LET t1 == [this EXCEPT !.settings = ObjectAssign(@, s)]
    IN  IF "chunkSize" \in DOMAIN s /\ s.chunkSize # 0
           /\ s.chunkSize # this.chunkSize
        THEN regenerateAllChunks([t1 EXCEPT !.chunkSize = s.chunkSize])
        ELSE t1

\* ZenDrive.applyGraphicsSettings: the terrain's render distance is assigned
applyGraphicsSettings(this, graphicsRenderDistance) ==
    [this EXCEPT !.renderDistance = graphicsRenderDistance]

destroy(this) ==
    LET t1 == unloadEach(this, this.loadedChunks, {})
    IN  [t1 EXCEPT !.chunks = <<>>,
                   !.loadedChunks = <<>>,
                   !.visibleChunks = {},
                   !.chunkPool = <<>>]

\* ------------------------------------------------------------ constructor

Constructed ==
    generateInitialChunks(
        [chunkSize |-> DefaultChunkSize,
         renderDistance |-> DefaultRenderDistance,
         settings |-> [wireframe |-> FALSE, showChunkBounds |-> FALSE,
                       autoLOD |-> TRUE, enableFrustumCulling |-> TRUE,
                       enableDistanceCulling |-> TRUE],
         heap |-> <<>>, chunks |-> <<>>, chunkPool |-> <<>>,
         loadedChunks |-> <<>>, visibleChunks |-> {},
         gl |-> [created |-> 0, deletes |-> <<>>, lost |-> FALSE],
         log |-> <<>>])

\* ---------------------------------------------------------------- actions

NoArgs == [none |-> TRUE]

\* What a call leaves behind: the receiver's fields, and the record of the
\* call (name, arguments, operation log, the state it started from).
Returns(t, op, args) ==
    /\ chunkSize' = t.chunkSize
    /\ renderDistance' = t.renderDistance
    /\ settings' = t.settings
    /\ heap' = t.heap
    /\ chunks' = t.chunks
    /\ chunkPool' = t.chunkPool
    /\ loadedChunks' = t.loadedChunks
    /\ visibleChunks' = t.visibleChunks
    /\ gl' = t.gl
    /\ last' = [op |-> op, args |-> args, log |-> t.log,
                pre |-> [op |-> last.op, args |-> last.args,
                         chunkSize |-> chunkSize,
                         renderDistance |-> renderDistance,
                         settings |-> settings,
                         loadedChunks |-> loadedChunks,
                         chunkPool |-> chunkPool, gl |-> gl]]
    /\ highWater' = Max(highWater, Len(t.loadedChunks))
    /\ calls' = calls + 1
    /\ UNCHANGED <<roadVars, noiseVars, mesh>>

\* the TerrainSystem after its constructor
TerrainInit ==
    LET t == Constructed IN
    /\ chunkSize = t.chunkSize
    /\ renderDistance = t.renderDistance
    /\ settings = t.settings
    /\ heap = t.heap
    /\ chunks = t.chunks
    /\ chunkPool = t.chunkPool
    /\ loadedChunks = t.loadedChunks
    /\ visibleChunks = t.visibleChunks
    /\ gl = t.gl
    /\ last = [op |-> "constructor", args |-> NoArgs, log |-> t.log,
               pre |-> NoArgs]
    /\ highWater = Len(t.loadedChunks)
    /\ calls = 0

\* the terrain alone: no road, no noise object or chunk geometry under test
Init ==
    /\ TerrainInit
    /\ road = Null
    /\ roadLast = Null
    /\ roadCalls = 0
    /\ noise = Null
    /\ noiseLast = Null
    /\ mesh = Null

Update(cameraPosition, frustumPlanes) ==
    /\ calls < MaxCalls
    /\ Returns(update(This, cameraPosition, frustumPlanes), "update",
               [cameraPosition |-> cameraPosition, frustumPlanes |-> frustumPlanes])

UpdateSettings(s) ==
    /\ calls < MaxCalls
    /\ Returns(updateSettings(This, s), "updateSettings", [settings |-> s])

ApplyGraphicsSettings(r) ==
    /\ calls < MaxCalls
    /\ Returns(applyGraphicsSettings(This, r), "applyGraphicsSettings",
               [renderDistance |-> r])

Destroy ==
    /\ calls < MaxCalls
    /\ Returns(destroy(This), "destroy", NoArgs)

Next ==
    \/ \E a \in Anchors, p \in PlaneSets : Update(a, p)
    \/ \E s \in SettingsInputs : UpdateSettings(s)
    \/ \E r \in RenderDistances : ApplyGraphicsSettings(r)
    \/ Destroy

Spec == Init /\ [][Next]_vars

\* ------------------------------------------------- loss of the GL context

\* The browser takes the WebGL context away, and gives it back: while it is
\* lost, createBuffer returns null.
LoseContext ==
    /\ ~ gl.lost
    /\ gl' = [gl EXCEPT !.lost = TRUE]
    /\ UNCHANGED <<chunkSize, renderDistance, settings, heap, chunks, chunkPool,
                   loadedChunks, visibleChunks, last, highWater, calls,
                   roadVars, noiseVars, mesh>>

RestoreContext ==
    /\ gl.lost
    /\ gl' = [gl EXCEPT !.lost = FALSE]
    /\ UNCHANGED <<chunkSize, renderDistance, settings, heap, chunks, chunkPool,
                   loadedChunks, visibleChunks, last, highWater, calls,
                   roadVars, noiseVars, mesh>>

ContextLossNext ==
    \/ \E a \in Anchors : Update(a, Null)
    \/ LoseContext
    \/ RestoreContext

ContextLossSpec == Init /\ [][ContextLossNext]_vars

\* ======================================================================
\* The road (class RoadSystem) and its spline (class CatmullRomSpline).
\*
\* Positions are Vec3 triples of whole world units.  Directions, factors and
\* spline parameters inside a cubic piece are fixed-point numbers (One is
\* 1.0).  A spline parameter t is the exact fraction n / d, held as
\* [n |-> n, d |-> d], so that i / samples and i / totalPoints are not
\* rounded.  Distances are compared by their squares.
\* ======================================================================

Frac(n, d) == [n |-> n, d |-> d]

FracEq(a, b) == a.n * b.d = b.n * a.d

FracLe(a, b) == a.n * b.d <= b.n * a.d

\* a + i * b, over the common denominator
FracAddTimes(a, i, b) ==
    IF a.d = b.d THEN Frac(a.n + i * b.n, a.d)
    ELSE Frac(a.n * b.d + i * b.n * a.d, a.d * b.d)

\* Math.max(0, Math.min(1, t))
FracClamp01(t) ==
    IF t.n < 0 THEN Frac(0, 1) ELSE IF t.n > t.d THEN Frac(1, 1) ELSE t

\* ------------------------------------------------------ CatmullRomSpline

\* getSegmentPoint: the cubic of the code on each coordinate, t fixed-point;
\* the result is rounded down to whole world units.  points[k] of the code
\* is points[k + 1] here.
\* the indices of this.points that getSegmentPoint and getSegmentTangent
\* read for p0, p1, p2 and p3 (counted from 0, as in the code)
controlIndices(points, segment) ==
    <<Max(0, segment - 1), segment, segment + 1, Min(Len(points) - 1, segment + 2)>>

\* Mutant: a slip in the coefficient of p1 in the square term.
getSegmentPoint_CoefficientSlip(points, segment, t) ==
    LET p0 == points[controlIndices(points, segment)[1] + 1]
        p1 == points[controlIndices(points, segment)[2] + 1]
        p2 == points[controlIndices(points, segment)[3] + 1]
        p3 == points[controlIndices(points, segment)[4] + 1]
        t2 == Mul(t, t)
        t3 == Mul(t2, t)
        coord(c) == (2 * p1[c] * One
                     + (p2[c] - p0[c]) * t
                     + (2 * p0[c] - 4 * p1[c] + 4 * p2[c] - p3[c]) * t2
                     + (3 * p1[c] - p0[c] - 3 * p2[c] + p3[c]) * t3)
                    \div (2 * One)
    IN  <<coord(1), coord(2), coord(3)>>

getSegmentPoint(points, segment, t) ==
    LET p0 == points[controlIndices(points, segment)[1] + 1]
        p1 == points[controlIndices(points, segment)[2] + 1]
        p2 == points[controlIndices(points, segment)[3] + 1]
        p3 == points[controlIndices(points, segment)[4] + 1]
        t2 == Mul(t, t)
        t3 == Mul(t2, t)
        coord(c) == (2 * p1[c] * One
                     + (p2[c] - p0[c]) * t
                     + (2 * p0[c] - 5 * p1[c] + 4 * p2[c] - p3[c]) * t2
                     + (3 * p1[c] - p0[c] - 3 * p2[c] + p3[c]) * t3)
                    \div (2 * One)
    IN  <<coord(1), coord(2), coord(3)>>

\* the segment and the local parameter that getPoint and getTangent compute
\* from t = n / d
segmentOf(points, t) ==
    Min((t.n * (Len(points) - 1)) \div t.d, Len(points) - 2)

localTOf(points, t) ==
    ((t.n * (Len(points) - 1) - segmentOf(points, t) * t.d) * One) \div t.d

\* getPoint(t) for t = n / d in [0, 1]
getPoint(points, t) ==
    IF Len(points) < 2
    THEN (IF Len(points) = 1 THEN points[1] ELSE <<0, 0, 0>>)
    ELSE getSegmentPoint(points, segmentOf(points, t), localTOf(points, t))

\* the largest r in lo..hi with r * r <= v (Math.sqrt, rounded down)
RECURSIVE SqrtBetween(_, _, _)
SqrtBetween(v, lo, hi) ==
    IF lo = hi THEN lo
    ELSE IF ((lo + hi + 1) \div 2) * ((lo + hi + 1) \div 2) <= v
    THEN SqrtBetween(v, (lo + hi + 1) \div 2, hi)
    ELSE SqrtBetween(v, lo, (lo + hi + 1) \div 2 - 1)

\* Vec3.normalize: the vector divided by its length if the length is above
\* 0, else Vec3.zero().  The vector is first scaled so that its largest
\* coordinate has three to four digits and the squares stay in range.
normalize(v) ==
    IF v = <<0, 0, 0>> THEN <<0, 0, 0>>
    ELSE LET m == Max(Abs(v[1]), Max(Abs(v[2]), Abs(v[3])))
             w == [c \in 1..3 |-> IF m >= 1000 THEN v[c] \div (m \div 1000)
                                  ELSE v[c] * (1000 \div m)]
             len == SqrtBetween(w[1] * w[1] + w[2] * w[2] + w[3] * w[3], 0, 4000)
         IN  <<(w[1] * One) \div len, (w[2] * One) \div len, (w[3] * One) \div len>>

\* getSegmentTangent: the derivative of the cubic on each coordinate (a
\* fixed-point number), normalized
getSegmentTangent(points, segment, t) ==
    LET p0 == points[controlIndices(points, segment)[1] + 1]
        p1 == points[controlIndices(points, segment)[2] + 1]
        p2 == points[controlIndices(points, segment)[3] + 1]
        p3 == points[controlIndices(points, segment)[4] + 1]
        t2 == Mul(t, t)
        coord(c) == ((p2[c] - p0[c]) * One
                     + 2 * (2 * p0[c] - 5 * p1[c] + 4 * p2[c] - p3[c]) * t
                     + 3 * (3 * p1[c] - p0[c] - 3 * p2[c] + p3[c]) * t2)
                    \div 2
    IN  normalize(<<coord(1), coord(2), coord(3)>>)

\* getTangent(t) for t = n / d in [0, 1]; Vec3.forward() for fewer than two
\* points
getTangent(points, t) ==
    IF Len(points) < 2
    THEN <<0, 0, One>>
    ELSE getSegmentTangent(points, segmentOf(points, t), localTOf(points, t))

\* ----------------------------------------------- the spline under test

SplinePoints ==
    [A |-> <<0, 0, 0>>, B |-> <<30, 2, 40>>, C |-> <<30, 8, 90>>,
     D |-> <<0, 3, 130>>, E |-> <<-20, 1, 180>>]

\* control point lists: none, one, two, coincident ones, a path that turns
\* back on itself, and paths of three to five waypoints
ControlPointLists ==
    LET P == SplinePoints
    IN  { <<>>, <<P.B>>, <<P.A, P.B>>, <<P.B, P.B>>, <<P.A, P.B, P.A>>,
          <<P.A, P.B, P.C>>, <<P.A, P.B, P.C, P.D>>, <<P.C, P.C, P.C, P.C>>,
          <<P.A, P.B, P.C, P.D, P.E>> }

\* parameters t = k / d; the calls are made with those in [0, 1]
SplineParams == { Frac(k, d) : k \in 0..8, d \in {1, 2, 3, 4, 8} }

\* local parameters of one cubic piece: its start, middle and end
LocalParams == { 0, One \div 2, One }

\* new CatmullRomSpline(points)
SplineInit ==
    /\ TerrainInit
    /\ \E points \in ControlPointLists : road = [points |-> points]
    /\ roadLast = Null
    /\ roadCalls = 0
    /\ noise = Null
    /\ noiseLast = Null
    /\ mesh = Null

SplineAnswers(op, args, result) ==
    /\ roadLast' = [op |-> op, args |-> args, result |-> result]
    /\ UNCHANGED <<terrainVars, road, roadCalls, noiseVars, mesh>>

GetPoint(t) ==
    /\ FracLe(t, Frac(1, 1))
    /\ SplineAnswers("getPoint", [t |-> t], getPoint(road.points, t))

\* getSegmentPoint on a piece of the spline (segment in 0..length - 2)
GetSegmentPoint(segment, t) ==
    /\ segment + 2 <= Len(road.points)
    /\ SplineAnswers("getSegmentPoint", [segment |-> segment, t |-> t],
                     getSegmentPoint(road.points, segment, t))

GetTangent(t) ==
    /\ FracLe(t, Frac(1, 1))
    /\ SplineAnswers("getTangent", [t |-> t], getTangent(road.points, t))

SplineNext ==
    \/ \E t \in SplineParams : GetPoint(t)
    \/ \E segment \in 0..3, t \in LocalParams : GetSegmentPoint(segment, t)
    \/ \E t \in SplineParams : GetTangent(t)

SplineSpec == SplineInit /\ [][SplineNext]_vars

\* -------------------------------------------------------------- RoadSystem

\* The value of noise.octaveNoise2D(segmentProgress, segmentProgress * 0.7,
\* 3, 0.6, 0.5) * curviness * 0.5, the turn angle of one step of extendRoad.
\* The generator is rebuilt from the fixed roadSeed at every call, so the
\* angle is a fixed function of path.length and curviness.  It is a small
\* real number; it is held as a whole multiple (-1, 0 or 1) of the angle
\* whose cosine is 4/5 and sine 3/5, so that Math.cos and Math.sin are exact.
turnAngle(pathLength, curviness) ==
    LET noiseSign == <<1, -1, -1, 1, 0, 0, 0, 0, 0, 0>>[((pathLength - 1) % 10) + 1]
    IN  IF curviness > 0 THEN noiseSign
        ELSE IF curviness < 0 THEN -noiseSign ELSE 0

Cos(angle) == IF angle = 0 THEN One ELSE (4 * One) \div 5

Sin(angle) == angle * ((3 * One) \div 5)

rotateVector(vector, angle) ==
    LET cos == Cos(angle)
        sin == Sin(angle)
    IN  <<Mul(vector[1], cos) - Mul(vector[3], sin),
          vector[2],
          Mul(vector[1], sin) + Mul(vector[3], cos)>>

\* the BiomeNoise of the terrain the road follows (this.terrain.biomeNoise)
TerrainBiomeNoise == BiomeNoise(12345)

\* MathUtils.lerp on fixed-point numbers
mathLerp(a, b, t) == a + Mul(b - a, t)

\* this.terrain.getHeightAt(x, z): the TerrainSystem the game passes to
\* the road, or a terrain that is flat at one height
terrainGetHeightAt(terrain, x, z) ==
    IF terrain.flat THEN terrain.height
    ELSE getHeightAt(TerrainBiomeNoise, x, z)

\* one iteration of the while loop of extendRoad: the next waypoint and the
\* rotated direction.  this.heights holds the height of every waypoint as a
\* fixed-point number; the y of a position is that height rounded down to
\* whole units.  currentPos is the last waypoint of the path.
nextWaypoint(this, currentPos, currentDir) ==
    Bind(rotateVector(currentDir, turnAngle(Len(this.path), this.curviness)),
         LAMBDA dir :
    \* currentPos.add(currentDir.multiply(this.segmentLength))
    Bind(<<currentPos[1] + Floor(dir[1] * this.segmentLength),
           this.heights[Len(this.heights)] + dir[2] * this.segmentLength,
           currentPos[3] + Floor(dir[3] * this.segmentLength)>>, LAMBDA nextPos :
    Bind(terrainGetHeightAt(this.terrain, nextPos[1] * One, nextPos[3] * One),
         LAMBDA terrainHeight :
    Bind(mathLerp(nextPos[2], terrainHeight + One, this.terrainFollowing),
         LAMBDA y :
        [pos |-> <<nextPos[1], Floor(y), nextPos[3]>>,
         height |-> y,
         dir |-> dir]))))

\* the while loop of extendRoad, from generatedDistance on
RECURSIVE extendLoop(_, _, _, _, _)
extendLoop(this, currentPos, currentDir, generatedDistance, distance) ==
    IF ~ (generatedDistance < distance)
    THEN [this EXCEPT !.lastGeneratedPosition = currentPos,
                      !.currentDirection = currentDir]
    ELSE Bind(nextWaypoint(this, currentPos, currentDir), LAMBDA w :
              extendLoop([this EXCEPT !.path = Append(@, w.pos),
                                      !.heights = Append(@, w.height)],
                         w.pos, w.dir,
                         generatedDistance + this.segmentLength, distance))

\* MathUtils.lerp(startT, endT, i / resolution) on exact fractions over one
\* denominator (both ends are multiples of 1 / totalPoints)
fracLerp(a, b, i, resolution) ==
    Frac(a.n * resolution + (b.n - a.n) * i, a.d * resolution)

\* calculateSegmentBounds: the box of a list of positions
calculateSegmentBounds(positions) ==
    LET lo(c) == CHOOSE v \in { positions[i][c] : i \in DOMAIN positions } :
                    \A i \in DOMAIN positions : v <= positions[i][c]
        hi(c) == CHOOSE v \in { positions[i][c] : i \in DOMAIN positions } :
                    \A i \in DOMAIN positions : v >= positions[i][c]
    IN  Bind(<<lo(1), lo(2), lo(3)>>, LAMBDA min :
        Bind(<<hi(1), hi(2), hi(3)>>, LAMBDA max :
            [center |-> <<(min[1] + max[1]) \div 2, (min[2] + max[2]) \div 2,
                          (min[3] + max[3]) \div 2>>,
             extents |-> <<(max[1] - min[1]) \div 2, (max[2] - min[2]) \div 2,
                           (max[3] - min[3]) \div 2>>,
             min |-> min, max |-> max]))

\* createSegmentBuffers: two createBuffer calls; yields the context and the
\* segment's buffers
createSegmentBuffers(g) ==
    Bind(glCreateBuffer(g), LAMBDA b1 :
    Bind(glCreateBuffer(b1.gl), LAMBDA b2 :
        [gl |-> b2.gl, buffers |-> [vertices |-> b1.buffer, indices |-> b2.buffer]]))

\* generateSegment(startT, endT): resolution + 1 cross-sections of five
\* vertices along the spline.  Each cross-section lies within
\* roadWidth / 2 + shoulderWidth of its centre vertex, the spline point; the
\* box is taken over the centre vertices.  Yields the context and the segment.
segmentResolution == 20

generateSegment(this, startT, endT) ==
    LET resolution == segmentResolution IN
    Bind([i \in 1..(resolution + 1) |->
            getPoint(this.spline.points, fracLerp(startT, endT, i - 1, resolution))],
         LAMBDA centres :
    Bind(createSegmentBuffers(this.gl), LAMBDA made :
        [gl |-> made.gl,
         segment |-> [vertexCount |-> 5 * (resolution + 1),
                      indexCount |-> 6 * 4 * resolution,
                      buffers |-> made.buffers,
                      visible |-> TRUE,
                      bounds |-> calculateSegmentBounds(centres),
                      startT |-> startT,
                      endT |-> endT]]))

\* the deleteBuffer calls on the two buffers of every segment of a list
RECURSIVE deleteSegmentBuffers(_, _)
deleteSegmentBuffers(g, segs) ==
    IF segs = <<>> THEN g
    ELSE IF Len(segs) = 1
    THEN Bind(glDeleteBuffer(g, segs[1].buffers.vertices), LAMBDA g1 :
              glDeleteBuffer(g1, segs[1].buffers.indices))
    ELSE Bind(deleteSegmentBuffers(g, FirstHalf(segs)), LAMBDA g1 :
              deleteSegmentBuffers(g1, SecondHalf(segs)))

\* Mutant: the segment list is emptied with the buffers left alive.
clearSegments_NoDelete(this) ==
    [this EXCEPT !.segments = <<>>,
                 !.log = Append(@, <<"clear", Len(this.segments)>>)]

\* clearSegments: the buffers of every segment in the list are deleted
clearSegments(this) ==
    [this EXCEPT !.gl = deleteSegmentBuffers(this.gl, this.segments),
                 !.segments = <<>>,
                 !.log = Append(@, <<"clear", Len(this.segments)>>)]

\* the for loop of generateSegments over i = starts[k]
RECURSIVE generateSegmentLoop(_, _, _, _)
generateSegmentLoop(this, starts, resolution, totalPoints) ==
    IF starts = <<>> THEN this
    ELSE IF Len(starts) = 1
    THEN Bind(generateSegment(this, Frac(starts[1], totalPoints),
                              Frac(starts[1] + resolution, totalPoints)),
              LAMBDA made :
                [this EXCEPT !.gl = made.gl, !.segments = Append(@, made.segment)])
    ELSE Bind(generateSegmentLoop(this, FirstHalf(starts), resolution, totalPoints),
              LAMBDA t :
                generateSegmentLoop(t, SecondHalf(starts), resolution, totalPoints))

pointsPerSegment == 10

generateSegments(this) ==
    Bind(clearSegments(this), LAMBDA t1 :
        IF t1.spline = Null \/ Len(t1.path) < 4
        THEN t1
        ELSE LET resolution == pointsPerSegment
                 totalPoints == Len(t1.path) * resolution
                 \* i = 0, resolution, ... while i < totalPoints - resolution
                 count == (totalPoints - resolution + resolution - 1) \div resolution
             IN  Bind(generateSegmentLoop(t1, [k \in 1..count |-> (k - 1) * resolution],
                                          resolution, totalPoints),
                      LAMBDA t2 :
                        [t2 EXCEPT !.log = Append(@, <<"generate", Len(t2.segments)>>)]))

\* new CatmullRomSpline(this.path): the spline keeps the path array itself
updateSpline(this) == [this EXCEPT !.spline = [points |-> this.path]]

\* Mutant: the loop runs once more than the distance asks for.
extendRoad_OneMore(this, distance) ==
    Bind(extendLoop(this, this.lastGeneratedPosition, this.currentDirection,
                    0, distance + this.segmentLength), LAMBDA t1 :
    Bind([t1 EXCEPT !.log = Append(@, <<"extend", distance>>)], LAMBDA t2 :
    Bind(updateSpline(t2), LAMBDA t3 :
         generateSegments(t3))))

\* Mutant: the direction reached is not stored in this.currentDirection.
extendRoad_DirectionNotKept(this, distance) ==
    Bind(extendLoop(this, this.lastGeneratedPosition, this.currentDirection,
                    0, distance), LAMBDA t1 :
    Bind([t1 EXCEPT !.currentDirection = this.currentDirection,
                    !.log = Append(@, <<"extend", distance>>)], LAMBDA t2 :
    Bind(updateSpline(t2), LAMBDA t3 :
         generateSegments(t3))))

extendRoad(this, distance) ==
    Bind(extendLoop(this, this.lastGeneratedPosition, this.currentDirection,
                    0, distance), LAMBDA t1 :
    Bind([t1 EXCEPT !.log = Append(@, <<"extend", distance>>)], LAMBDA t2 :
    Bind(updateSpline(t2), LAMBDA t3 :
         generateSegments(t3))))

\* Mutant: culling also drops the waypoints that are out of range.
cullOldSegments_DropsWaypoints(this, vehiclePosition) ==
    LET maxDistance == this.generationDistance * 2
        far(seg) == Dist2(vehiclePosition, seg.bounds.center) > maxDistance * maxDistance
        farPoint(w) == Dist2(vehiclePosition, w) > maxDistance * maxDistance
    IN  Bind(SelectSeq(this.segments, far), LAMBDA culled :
            [this EXCEPT
                !.gl = deleteSegmentBuffers(@, culled),
                !.segments = SelectSeq(@, LAMBDA seg : ~ far(seg)),
                !.path = SelectSeq(@, LAMBDA w : ~ farPoint(w)),
                !.log = Append(@, <<"cull", Len(culled)>>)])

\* Mutant: culled segments keep their buffers (no deleteBuffer).
cullOldSegments_NoDelete(this, vehiclePosition) ==
    LET maxDistance == this.generationDistance * 2
        far(seg) == Dist2(vehiclePosition, seg.bounds.center) > maxDistance * maxDistance
    IN  [this EXCEPT
            !.segments = SelectSeq(@, LAMBDA seg : ~ far(seg)),
            !.log = Append(@, <<"cull", Len(SelectSeq(this.segments, far))>>)]

\* cullOldSegments: the filter keeps the segments within twice the
\* generation distance and deletes the two buffers of each of the others
cullOldSegments(this, vehiclePosition) ==
    LET maxDistance == this.generationDistance * 2
        far(seg) == Dist2(vehiclePosition, seg.bounds.center) > maxDistance * maxDistance
    IN  Bind(SelectSeq(this.segments, far), LAMBDA culled :
            [this EXCEPT
                !.gl = deleteSegmentBuffers(@, culled),
                !.segments = SelectSeq(@, LAMBDA seg : ~ far(seg)),
                !.log = Append(@, <<"cull", Len(culled)>>)])

roadUpdateVisibility(this, vehiclePosition) ==
    [this EXCEPT
        !.segments = [i \in DOMAIN this.segments |->
                        [this.segments[i] EXCEPT !.visible =
                            Dist2(vehiclePosition, this.segments[i].bounds.center)
                              < this.generationDistance * this.generationDistance]]]

\* Mutant: the road is extended whenever the anchor is within the whole
\* generation distance of its end.
roadUpdate_ExtendsEarly(this, vehiclePosition) ==
    LET near == Dist2(this.lastGeneratedPosition, vehiclePosition)
                  < this.generationDistance * this.generationDistance
    IN  Bind(IF near THEN extendRoad(this, this.generationDistance \div 2) ELSE this,
             LAMBDA t1 :
        Bind(cullOldSegments(t1, vehiclePosition), LAMBDA t2 :
             roadUpdateVisibility(t2, vehiclePosition)))

\* RoadSystem.update: distanceToEnd < generationDistance * 0.5, by squares of
\* twice the distance
roadUpdate(this, vehiclePosition) ==
    LET near == 4 * Dist2(this.lastGeneratedPosition, vehiclePosition)
                  < this.generationDistance * this.generationDistance
    IN  Bind(IF near THEN extendRoad(this, this.generationDistance \div 2) ELSE this,
             LAMBDA t1 :
        Bind(cullOldSegments(t1, vehiclePosition), LAMBDA t2 :
             roadUpdateVisibility(t2, vehiclePosition)))

regenerateSegments(this) ==
    Bind(clearSegments(this), LAMBDA t1 : generateSegments(t1))

\* RoadSystem.updateSettings: a field that is undefined in the argument is
\* left as it is
roadUpdateSettings(this, s) ==
    Bind(IF "roadWidth" \in DOMAIN s
         THEN regenerateSegments([this EXCEPT !.roadWidth = s.roadWidth])
         ELSE this, LAMBDA t1 :
    Bind(IF "curviness" \in DOMAIN s
         THEN [t1 EXCEPT !.curviness = s.curviness] ELSE t1, LAMBDA t2 :
         IF "terrainFollowing" \in DOMAIN s
         THEN [t2 EXCEPT !.terrainFollowing = s.terrainFollowing] ELSE t2))

\* new RoadSystem(renderer, terrain): the fields, then generateInitialRoad
RoadSystem(terrain) ==
    extendRoad([terrain |-> terrain,
                roadWidth |-> 8,
                segmentLength |-> 50,
                generationDistance |-> 1000,
                maxSegments |-> 100,
                segments |-> <<>>,
                path |-> << <<0, 0, 0>> >>,
                heights |-> <<0>>,
                spline |-> Null,
                lastGeneratedPosition |-> <<0, 0, 0>>,
                currentDirection |-> <<0, 0, One>>,
                curviness |-> (3 * One) \div 10,
                terrainFollowing |-> (8 * One) \div 10,
                shoulderWidth |-> 1,
                gl |-> [created |-> 0, deletes |-> <<>>, lost |-> FALSE],
                log |-> <<>>],
               1000)

\* the road of the game, over its TerrainSystem
RoadConstructed == RoadSystem([flat |-> FALSE])

\* ------------------------------------------------- the road state machine

\* anchors (vehicle positions) along the road and past its end
RoadAnchors ==
    { <<0, 0, 0>>, <<0, 5, 900>>, <<10, 0, 1400>>, <<0, 0, 2400>> }

\* distances passed to extendRoad
ExtendDistances == { 30, 120, 500, 1000 }

RoadSettingsInputs ==
    { [roadWidth |-> 12], [curviness |-> 0], [terrainFollowing |-> One \div 2] }

RoadThis == [road EXCEPT !.log = <<>>]

RoadReturns(t, op, args) ==
    /\ road' = [t EXCEPT !.log = <<>>]
    /\ roadLast' = [op |-> op, args |-> args, log |-> t.log, pre |-> road]
    /\ roadCalls' = roadCalls + 1
    /\ UNCHANGED <<terrainVars, noiseVars, mesh>>

\* the terrain and the road after construction (main.js builds the terrain,
\* then the road over it)
RoadInit ==
    \E t \in {RoadConstructed} :
    /\ TerrainInit
    /\ road = [t EXCEPT !.log = <<>>]
    /\ roadLast = [op |-> "constructor", args |-> NoArgs, log |-> t.log, pre |-> Null]
    /\ roadCalls = 0
    /\ noise = Null
    /\ noiseLast = Null
    /\ mesh = Null

RoadUpdate(vehiclePosition) ==
    /\ roadCalls < MaxRoadCalls
    /\ \E t \in {roadUpdate(RoadThis, vehiclePosition)} :
          RoadReturns(t, "update", [vehiclePosition |-> vehiclePosition])

ExtendRoad(distance) ==
    /\ roadCalls < MaxRoadCalls
    /\ \E t \in {extendRoad(RoadThis, distance)} :
          RoadReturns(t, "extendRoad", [distance |-> distance])

CullOldSegments(vehiclePosition) ==
    /\ roadCalls < MaxRoadCalls
    /\ \E t \in {cullOldSegments(RoadThis, vehiclePosition)} :
          RoadReturns(t, "cullOldSegments", [vehiclePosition |-> vehiclePosition])

RoadUpdateSettings(s) ==
    /\ roadCalls < MaxRoadCalls
    /\ \E t \in {roadUpdateSettings(RoadThis, s)} :
          RoadReturns(t, "updateSettings", [settings |-> s])

RoadNext ==
    \/ \E v \in RoadAnchors : RoadUpdate(v)
    \/ \E d \in ExtendDistances : ExtendRoad(d)
    \/ \E v \in RoadAnchors : CullOldSegments(v)
    \/ \E s \in RoadSettingsInputs : RoadUpdateSettings(s)

RoadSpec == RoadInit /\ [][RoadNext]_vars

\* ------------------------------------------------ a drive along the road

MaxDrives == 10

\* update with the vehicle on the waypoint that is back waypoints before the
\* end of the road (the game calls update with the vehicle's position in
\* every frame)
Drive(back) ==
    /\ roadCalls < MaxDrives
    /\ \E v \in {road.path[Len(road.path) - back]} :
       \E t \in {roadUpdate(RoadThis, v)} :
          RoadReturns(t, "update", [vehiclePosition |-> v])

\* the road width is changed in the settings
ChangeRoadWidth(s) ==
    /\ roadCalls < MaxDrives
    /\ s.roadWidth # road.roadWidth
    /\ \E t \in {roadUpdateSettings(RoadThis, s)} :
          RoadReturns(t, "updateSettings", [settings |-> s])

RoadDriveNext ==
    \/ \E back \in {0, 4} : Drive(back)
    \/ ChangeRoadWidth([roadWidth |-> 12])

RoadDriveSpec == RoadInit /\ [][RoadDriveNext]_vars

\* ------------------------------------------------ extensions in sequence

\* distances that are whole multiples of segmentLength
StepDistances == { 50 * k : k \in 1..10 }

\* extendRoad(distance); the call before it is kept beside it
ExtendAgain(distance) ==
    /\ roadCalls < MaxRoadCalls
    /\ \E t \in {extendRoad(RoadThis, distance)} :
          /\ road' = [t EXCEPT !.log = <<>>]
          /\ roadLast' = [op |-> "extendRoad", args |-> [distance |-> distance],
                          log |-> t.log, pre |-> road,
                          before |-> [op |-> roadLast.op, args |-> roadLast.args,
                                      pre |-> roadLast.pre]]
          /\ roadCalls' = roadCalls + 1
          /\ UNCHANGED <<terrainVars, noiseVars, mesh>>

RoadSequenceNext == \E d \in StepDistances : ExtendAgain(d)

RoadSequenceSpec == RoadInit /\ [][RoadSequenceNext]_vars

\* ------------------------------------------------ the road on flat terrain

\* heights H of a terrain whose getHeightAt is constantly H
FlatHeights == { -20, 0, 10, 50 }

\* values of terrainFollowing in (0, 1]
FollowingInputs ==
    { [terrainFollowing |-> One \div 5], [terrainFollowing |-> One \div 2],
      [terrainFollowing |-> One] }

\* a road constructed over a flat terrain
FlatRoadInit ==
    \E H \in FlatHeights :
    \E t \in {RoadSystem([flat |-> TRUE, height |-> H * One])} :
    /\ TerrainInit
    /\ road = [t EXCEPT !.log = <<>>]
    /\ roadLast = [op |-> "constructor", args |-> NoArgs, log |-> t.log, pre |-> Null]
    /\ roadCalls = 0
    /\ noise = Null
    /\ noiseLast = Null
    /\ mesh = Null

FlatRoadNext ==
    \/ \E d \in ExtendDistances : ExtendRoad(d)
    \/ \E s \in FollowingInputs : RoadUpdateSettings(s)

FlatRoadSpec == FlatRoadInit /\ [][FlatRoadNext]_vars

\* ------------------------------------------------------- road queries

samples == 100

\* const refinement = 0.01
refinement == Frac(1, 100)

\* the first loop of getRoadInfo for i = lo .. hi: a sample replaces the
\* closest one when it is strictly nearer.  The range is run in two halves,
\* one after the other.
RECURSIVE coarseLoop(_, _, _, _, _)
coarseLoop(this, worldPos, best, lo, hi) ==
    IF lo > hi THEN best
    ELSE IF lo = hi
    THEN Bind(Dist2(worldPos, getPoint(this.spline.points, Frac(lo, samples))),
              LAMBDA distance2 :
                IF best.t = Null \/ distance2 < best.distance2
                THEN [t |-> Frac(lo, samples), distance2 |-> distance2,
                      evaluated |-> Append(best.evaluated, Frac(lo, samples))]
                ELSE [best EXCEPT !.evaluated = Append(@, Frac(lo, samples))])
    ELSE Bind(coarseLoop(this, worldPos, best, lo, (lo + hi) \div 2), LAMBDA b :
              coarseLoop(this, worldPos, b, (lo + hi) \div 2 + 1, hi))

\* the second loop of getRoadInfo for i = lo .. hi, around the closestT of
\* the moment
RECURSIVE refineLoop(_, _, _, _, _)
refineLoop(this, worldPos, best, lo, hi) ==
    IF lo > hi THEN best
    ELSE IF lo = hi
    THEN Bind(FracClamp01(FracAddTimes(best.t, lo, refinement)), LAMBDA t :
         Bind(Dist2(worldPos, getPoint(this.spline.points, t)), LAMBDA distance2 :
              IF distance2 < best.distance2
              THEN [t |-> t, distance2 |-> distance2,
                    evaluated |-> Append(best.evaluated, t)]
              ELSE [best EXCEPT !.evaluated = Append(@, t)]))
    ELSE Bind(refineLoop(this, worldPos, best, lo, (lo + hi) \div 2), LAMBDA b :
              refineLoop(this, worldPos, b, (lo + hi) \div 2 + 1, hi))

\* getRoadInfo(worldPos): null without a spline; otherwise the closest
\* sampled point, its parameter and its distance (held by its square).  The
\* parameters the two loops evaluated are kept with the result.  The
\* direction field (the normalised tangent) is left out.
getRoadInfo(this, worldPos) ==
    IF this.spline = Null THEN Null
    ELSE Bind(coarseLoop(this, worldPos,
                         [t |-> Null, distance2 |-> 0, evaluated |-> <<>>],
                         0, samples),
              LAMBDA coarse :
         Bind(refineLoop(this, worldPos,
                         [t |-> coarse.t, distance2 |-> coarse.distance2,
                          evaluated |-> <<>>], -10, 10),
              LAMBDA fine :
                [position |-> getPoint(this.spline.points, fine.t),
                 distance2 |-> fine.distance2,
                 t |-> fine.t,
                 coarse |-> coarse.evaluated,
                 coarseDistance2 |-> coarse.distance2,
                 refined |-> fine.evaluated]))

\* isOnRoad(worldPos, tolerance): roadInfo && roadInfo.distance <= tolerance
isOnRoad(this, worldPos, tolerance) ==
    Bind(getRoadInfo(this, worldPos), LAMBDA roadInfo :
        IF roadInfo = Null THEN FALSE
        ELSE roadInfo.distance2 <= tolerance * tolerance)

\* getRoadHeight(x, z): the height of the closest road point, or null
getRoadHeight(this, x, z) ==
    Bind(getRoadInfo(this, <<x, 0, z>>), LAMBDA roadInfo :
        IF roadInfo # Null /\ roadInfo.distance2 <= this.roadWidth * this.roadWidth
        THEN roadInfo.position[2]
        ELSE Null)

\* queried world positions: on the sixth waypoint of the road, and 3, 4, 6,
\* 10 and 20 units beside it
QueryPoints ==
    { <<0, 1, 230>>, <<3, 1, 230>>, <<4, 1, 230>>, <<6, 1, 230>>, <<10, 1, 230>>,
      <<20, 1, 230>> }

\* a query returns: the road is as before
RoadAnswers(result, op, args) ==
    /\ roadLast' = [op |-> op, args |-> args, log |-> <<>>, pre |-> road,
                    result |-> result]
    /\ UNCHANGED <<road, roadCalls, terrainVars, noiseVars, mesh>>

GetRoadInfo(worldPos) ==
    \E r \in {getRoadInfo(road, worldPos)} :
        RoadAnswers(r, "getRoadInfo", [worldPos |-> worldPos])

\* isOnRoad(worldPos): the tolerance parameter takes its default, this.roadWidth
IsOnRoad(worldPos) ==
    \E r \in {isOnRoad(road, worldPos, road.roadWidth)} :
        RoadAnswers(r, "isOnRoad", [worldPos |-> worldPos])

GetRoadHeight(worldPos) ==
    \E r \in {getRoadHeight(road, worldPos[1], worldPos[3])} :
        RoadAnswers(r, "getRoadHeight", [worldPos |-> <<worldPos[1], 0, worldPos[3]>>])

RoadQueryNext ==
    \/ ExtendRoad(500)
    \/ RoadUpdateSettings([roadWidth |-> 12])
    \/ \E p \in QueryPoints : GetRoadInfo(p)
    \/ \E p \in QueryPoints : IsOnRoad(p)
    \/ \E p \in QueryPoints : GetRoadHeight(p)

RoadQuerySpec == RoadInit /\ [][RoadQueryNext]_vars

\* ------------------------------------------------ the noise state machine

\* seeds of the terrain's BiomeNoise and of the road's NoiseGenerator
NoiseSeeds == { 12345, 54321 }

\* sampled world positions (x, z)
NoisePoints == { <<130, 40>>, <<-250, 760>>, <<37, 2400>> }

SamplingCalls == { "perlin2D", "octaveNoise2D", "ridgedNoise2D", "billow2D",
                   "getBiome", "getBlendedHeight", "getHeightAt" }

\* the value a sampling call returns on a BiomeNoise; the NoiseGenerator
\* calls are made on its elevation generator at the scale 0.005 and with
\* the default arguments (4, 0.5, 1) of the code
sampleValue(this, op, p) ==
    LET x == p[1] * One
        z == p[2] * One
        e == this.elevation
    IN  CASE op = "perlin2D" -> perlin2D(e, Mul(x, 50), Mul(z, 50))
          [] op = "octaveNoise2D" ->
               octaveNoise2D(e, Mul(x, 50), Mul(z, 50), 4, One \div 2, One)
          [] op = "ridgedNoise2D" ->
               ridgedNoise2D(e, Mul(x, 50), Mul(z, 50), 4, One \div 2, One)
          [] op = "billow2D" ->
               billow2D(e, Mul(x, 50), Mul(z, 50), 4, One \div 2, One)
          [] op = "getBiome" -> getBiome(this, x, z)
          [] op = "getBlendedHeight" -> getBlendedHeight(this, x, z, "plains")
          [] op = "getHeightAt" -> getHeightAt(this, x, z)

\* Mutant: a sampling call draws from the seeded generator again and
\* reshuffles the elevation table.
sample_Reshuffles(this, op, p) ==
    [this |-> [this EXCEPT !.elevation = NoiseGenerator(@.seed + 1)],
     value |-> sampleValue(this, op, p)]

\* a sampling call: the receiver after the call and the value returned.  No
\* sampling method assigns to a field of its receiver or to an entry of a
\* table (x and y are parameters, the other names are const).
sample(this, op, p) == [this |-> this, value |-> sampleValue(this, op, p)]

\* two BiomeNoise instances built from one seed
NoiseInit ==
    /\ TerrainInit
    /\ road = Null
    /\ roadLast = Null
    /\ roadCalls = 0
    /\ \E seed \in NoiseSeeds :
          noise = [seed |-> seed, a |-> BiomeNoise(seed), b |-> BiomeNoise(seed)]
    /\ noiseLast = Null
    /\ mesh = Null

\* one sampling call on one of the two instances
Sample(which, op, p) ==
    \E r \in {sample(noise[which], op, p)} :
        /\ noise' = [noise EXCEPT ![which] = r.this]
        /\ noiseLast' = [which |-> which, op |-> op, args |-> p, value |-> r.value,
                         prev |-> IF noiseLast = Null THEN Null
                                  ELSE [which |-> noiseLast.which, op |-> noiseLast.op]]
        /\ UNCHANGED <<terrainVars, roadVars, mesh>>

NoiseNext ==
    \E which \in {"a", "b"}, op \in SamplingCalls, p \in NoisePoints :
        Sample(which, op, p)

NoiseSpec == NoiseInit /\ [][NoiseNext]_vars

\* ------------------------------------------- the permutation table

\* seeds of NoiseGenerator: small ones, the four of the terrain's BiomeNoise,
\* the road's, and a negative one
PermutationSeeds == (0..15) \cup { 12345, 13345, 14345, 15345, 54321, -7 }

\* arguments (x, y) of perlin2D, as fixed-point numbers: at and around whole
\* numbers, at 255 and 256, negative and far from the origin
PerlinPoints ==
    { <<0, 0>>, <<One \div 2, 3 * One + 1>>, <<255 * One + 5000, 255 * One>>,
      <<256 * One, 511 * One + 9999>>, <<-1, -One>>, <<-(One \div 2), -256 * One>>,
      <<12345678, -98765432>>, <<-200000 * One, 200000 * One>> }

\* new NoiseGenerator(seed)
PermutationInit ==
    /\ TerrainInit
    /\ road = Null
    /\ roadLast = Null
    /\ roadCalls = 0
    /\ \E seed \in PermutationSeeds : noise = NoiseGenerator(seed)
    /\ noiseLast = Null
    /\ mesh = Null

\* perlin2D(x, y) on the generator: the indices it reads and its value
Perlin2D(p) ==
    /\ noiseLast' = [op |-> "perlin2D", args |-> p,
                     indices |-> perlinIndices(noise, p[1], p[2]),
                     value |-> perlin2D(noise, p[1], p[2])]
    /\ UNCHANGED <<terrainVars, roadVars, noise, mesh>>

PermutationNext == \E p \in PerlinPoints : Perlin2D(p)

PermutationSpec == PermutationInit /\ [][PermutationNext]_vars

\* ------------------------------------------- the chunk geometry under test

\* values of this.chunkSize (the default 128, and values updateSettings can
\* leave there)
ChunkSizes == { -64, 8, 12, 16, 24, 32, 40, 48, 64, 96, 128, 200, 256, 260 }

\* new Uint16Array(list): every element is stored modulo 2^16
Uint16(v) == v % 65536

\* Mutant: the index loops run over every row, z < resolution.
chunkIndices_EveryRow(resolution) ==
    [z \in 0..(resolution - 1) |-> [x \in 0..(resolution - 2) |->
        LET topLeft == z * resolution + x
            bottomLeft == (z + 1) * resolution + x
        IN  <<Uint16(topLeft), Uint16(bottomLeft), Uint16(topLeft + 1),
              Uint16(topLeft + 1), Uint16(bottomLeft), Uint16(bottomLeft + 1)>>]]

\* the index loops of generateChunkGeometry: one iteration per (z, x) with
\* z < resolution - 1 and x < resolution - 1, each pushing the six indices
\* of two triangles; the list is then stored in a Uint16Array.  The list is
\* held by rows: indices[z][x] is what iteration (z, x) pushed.
chunkIndices(resolution) ==
    [z \in 0..(resolution - 2) |-> [x \in 0..(resolution - 2) |->
        LET topLeft == z * resolution + x
            topRight == topLeft + 1
            bottomLeft == (z + 1) * resolution + x
            bottomRight == bottomLeft + 1
        IN  <<Uint16(topLeft), Uint16(bottomLeft), Uint16(topRight),
              Uint16(topRight), Uint16(bottomLeft), Uint16(bottomRight)>>]]

\* generateChunkGeometry on a chunk of the given LOD: the vertex loops push
\* three coordinates per (z, x) with z < resolution and x < resolution
chunkGeometry(size, lod) ==
    LET resolution == Resolution(size, lod)
        verticesLength == 3 * Cardinality((0..(resolution - 1)) \X (0..(resolution - 1)))
    IN  Bind(chunkIndices(resolution), LAMBDA indices :
        Bind(6 * Cardinality({ <<z, x>> : z \in DOMAIN indices,
                                           x \in DOMAIN indices[0] }),
             LAMBDA indicesLength :
            [chunkSize |-> size, lod |-> lod, generated |-> TRUE,
             indices |-> indices,
             vertexCount |-> verticesLength \div 3,
             indexCount |-> indicesLength,
             triangleCount |-> indicesLength \div 3]))

\* a chunk object of some LOD before its geometry is generated
GeometryInit ==
    /\ TerrainInit
    /\ road = Null
    /\ roadLast = Null
    /\ roadCalls = 0
    /\ noise = Null
    /\ noiseLast = Null
    /\ \E size \in ChunkSizes, lod \in 0..(lodLevels - 1) :
          mesh = [chunkSize |-> size, lod |-> lod, generated |-> FALSE]

GenerateChunkGeometry ==
    /\ ~ mesh.generated
    /\ mesh' = chunkGeometry(mesh.chunkSize, mesh.lod)
    /\ UNCHANGED <<terrainVars, roadVars, noiseVars>>

GeometryNext == GenerateChunkGeometry

GeometrySpec == GeometryInit /\ [][GeometryNext]_vars

\* ------------------------------------------- the biome classification

\* channel values around the thresholds of getBiome (fixed-point)
Temperatures ==
    { -One, -3001, -3000, -2999, -1001, -1000, -999, 0,
      2000, 2001, 2999, 3000, 3001, One }

Humidities == { -One, -3001, -3000, -2999, 0, 4000, 4001, One }

Elevations == { -One, 0, 999, 1000, 1001, 6000, 6001, One }

\* the channel values getBiome has read at some position, before it
\* classifies them
BiomeInit ==
    /\ TerrainInit
    /\ road = Null
    /\ roadLast = Null
    /\ roadCalls = 0
    /\ \E temp \in Temperatures, humidity \in Humidities, elevation \in Elevations :
          noise = [temp |-> temp, humidity |-> humidity, elevation |-> elevation]
    /\ noiseLast = Null
    /\ mesh = Null

\* the classification by getBiome and the biome id generateChunkGeometry
\* stores for it
Classify ==
    /\ noiseLast = Null
    /\ \E biome \in {biomeOf(noise.temp, noise.humidity, noise.elevation)} :
          noiseLast' = [op |-> "getBiome", biome |-> biome,
                        biomeId |-> biomeIdOf(biome),
                        known |-> biome \in DOMAIN biomes]
    /\ UNCHANGED <<terrainVars, roadVars, noise, mesh>>

BiomeNext == Classify

BiomeSpec == BiomeInit /\ [][BiomeNext]_vars

\* ------------------------------------------------- vocabulary of the claims

LoadedKeys == Range(loadedChunks)

ChunkOf(key) == heap[chunks[key]]

\* the chunk of the anchor of the last update, Math.floor(anchor / chunkWorldSize)
CamChunk ==
    <<FloorDiv(last.args.cameraPosition[1], chunkWorldSize) * chunkWorldSize,
      FloorDiv(last.args.cameraPosition[3], chunkWorldSize) * chunkWorldSize>>

\* squared chunk-grid distance of two keys (scaled by chunkWorldSize)
GridDist2(k, c) == (k[1] - c[1]) * (k[1] - c[1]) + (k[2] - c[2]) * (k[2] - c[2])

\* the integer grid keys of a window that holds the render radius
GridKeysAround(c) ==
    LET n == renderDistance \div chunkWorldSize + 1
    IN  { <<c[1] + i * chunkWorldSize, c[2] + j * chunkWorldSize>> :
            i \in (-n)..n, j \in (-n)..n }

IsGridKey(k) == k[1] % chunkWorldSize = 0 /\ k[2] % chunkWorldSize = 0

LogOps(kind) == { i \in 1..Len(last.log) : last.log[i][1] = kind }

AfterUpdate == last.op = "update"

\* ----------------------------------------------------------------- claims

\* C1: after update(anchor, planes), every grid key whose chunk-grid distance
\* from the anchor's chunk is at most renderDistance / chunkWorldSize is
\* loaded, and no key farther than twice that radius is loaded.
C1_Coverage ==
    AfterUpdate =>
        /\ \A k \in GridKeysAround(CamChunk) :
              GridDist2(k, CamChunk) <= renderDistance * renderDistance
                  => k \in LoadedKeys
        /\ \A k \in LoadedKeys :
              GridDist2(k, CamChunk) <= 4 * renderDistance * renderDistance

\* C1, where it holds: the same coverage when the render distance is a whole
\* number of chunks (then every required key is an integer grid key).
C1_CoverageWholeChunks ==
    renderDistance % chunkWorldSize = 0 => C1_Coverage

C1_WholeChunksWitness ==
    /\ AfterUpdate
    /\ renderDistance % chunkWorldSize = 0
    /\ CamChunk # <<0, 0>>
    /\ LogOps("unload") # {}

\* C2: after every update each loaded chunk's lod is the LOD bucket of its
\* current distance from the anchor's chunk (a loaded chunk whose LOD changed
\* has been rebuilt).
C2_LodCurrent ==
    AfterUpdate =>
        \A k \in LoadedKeys :
            ChunkOf(k).lod = LodFor(This, GridDist2(k, CamChunk), renderDistance)

\* C3: a second update in a row with the same anchor and planes generates and
\* unloads nothing: the loaded set, the registry, the pool and the GPU
\* buffers are unchanged by it.
C3_Idempotent ==
    [][ (last.op = "update" /\ last'.op = "update" /\ last'.args = last.args
         /\ calls' = calls + 1)
        => /\ loadedChunks' = loadedChunks
           /\ chunks' = chunks
           /\ chunkPool' = chunkPool
           /\ gl' = gl
           /\ \A i \in 1..Len(last'.log) :
                 last'.log[i][1] \notin {"unload", "generate", "alloc"} ]_vars

C3_Witness ==
    /\ last.op = "update"
    /\ last.pre.op = "update"
    /\ last.pre.args = last.args
    /\ Len(loadedChunks) > 0
    /\ last.log = << <<"visibility">> >>

\* C4: at most one live chunk object per key: the registry's keys are the
\* loaded set, each registered object carries its key, no object is
\* registered twice or registered and pooled, and generateChunk on a loaded
\* key changes nothing (no record, no buffer is allocated).
C4_OneChunkPerKey ==
    /\ DOMAIN chunks = LoadedKeys
    /\ Cardinality(LoadedKeys) = Len(loadedChunks)
    /\ \A k \in DOMAIN chunks : ChunkOf(k).key = k
    /\ \A k1, k2 \in DOMAIN chunks : chunks[k1] = chunks[k2] => k1 = k2
    /\ \A i \in 1..Len(chunkPool) : \A k \in DOMAIN chunks : chunks[k] # chunkPool[i]
    /\ \A i, j \in 1..Len(chunkPool) : chunkPool[i] = chunkPool[j] => i = j
    /\ \A k \in LoadedKeys : \A lod \in 0..(lodLevels - 1) :
          generateChunk(This, k[1], k[2], lod) = This

C4_Witness ==
    /\ Len(chunkPool) > 0
    /\ Len(loadedChunks) > 0
    /\ LogOps("unload") # {}
    /\ LogOps("generate") # {}
    /\ LogOps("alloc") = {}

\* C5: every buffer made by createChunkBuffers is either still live and held
\* by exactly one loaded chunk, or was passed to deleteBuffer exactly once
\* and is held by no chunk object.
Registered == { chunks[k] : k \in DOMAIN chunks }

HeldBuffers == UNION { {heap[id].buffers.vertices, heap[id].buffers.indices} :
                         id \in Registered }

C5_ReleasedOnce ==
    /\ \A b \in 1..gl.created : gl.deletes[b] <= 1
    /\ HeldBuffers = { b \in 1..gl.created : gl.deletes[b] = 0 }
    /\ Cardinality(HeldBuffers) = 2 * Cardinality(Registered)
    /\ \A id \in 1..Len(heap) : id \notin Registered => heap[id].buffers = Null

C5_Witness ==
    /\ last.op = "destroy"
    /\ last.pre.op \in {"update", "updateSettings"}
    /\ LogOps("unload") # {}
    /\ \A b \in 1..gl.created : gl.deletes[b] = 1

\* C6: the live chunk records (pooled plus loaded) never outnumber the
\* largest number of chunks that were loaded at once so far.
C6_PoolBounded ==
    Len(chunkPool) + Len(loadedChunks) <= highWater

C6_Witness ==
    /\ Len(chunkPool) > 0
    /\ LogOps("generate") # {}
    /\ LogOps("alloc") = {}
    /\ Len(chunkPool) + Len(loadedChunks) = highWater

\* C7: every record held in chunkPool (which is what getChunkFromPool hands
\* out) has null vertices, indices and buffers, visible = false, and no
\* bounds, transform or triangle count of its previous tenant.
C7_PoolReset ==
    \A i \in 1..Len(chunkPool) :
        LET c == heap[chunkPool[i]]
        IN  /\ c.vertices = Null
            /\ c.indices = Null
            /\ c.buffers = Null
            /\ c.visible = FALSE
            /\ c.bounds = Null
            /\ c.transform = Null
            /\ c.triangleCount = 0

\* C8: within one update every unloadChunk comes before any generateChunk
\* and every generateChunk before the visibility pass, which ends the call;
\* and between calls every registered chunk has vertex data, index data, GPU
\* buffers and bounds.
C8_Ordered ==
    /\ AfterUpdate =>
          /\ \A i \in LogOps("unload") : \A j \in LogOps("generate") : i < j
          /\ LogOps("visibility") = {Len(last.log)}
    /\ \A k \in DOMAIN chunks :
          /\ ChunkOf(k).vertices # Null
          /\ ChunkOf(k).indices # Null
          /\ ChunkOf(k).buffers # Null
          /\ ChunkOf(k).bounds # Null

C8_Witness ==
    /\ AfterUpdate
    /\ LogOps("unload") # {}
    /\ LogOps("generate") # {}
    /\ DOMAIN chunks # {}

\* C9: after update, visibleChunks is exactly the loaded keys whose chunk
\* (a) has its centre within renderDistance of the anchor when distance
\* culling is on and (b) when frustum culling is on and planes are given, has
\* for every plane its positive vertex not behind the plane; chunk.visible is
\* true exactly for those keys; visibleChunks is always a subset of the
\* loaded keys.
C9_WithinDistance(k) ==
    settings.enableDistanceCulling =>
        Dist2(last.args.cameraPosition, ChunkOf(k).bounds.center)
            <= renderDistance * renderDistance

C9_InFrustum(k) ==
    (settings.enableFrustumCulling /\ last.args.frustumPlanes # Null) =>
        \A i \in 1..Len(last.args.frustumPlanes.planes) :
            LET plane == last.args.frustumPlanes.planes[i]
                box == ChunkOf(k).bounds
                corner == [j \in 1..3 |-> IF plane[j] >= 0 THEN box.max[j]
                                                            ELSE box.min[j]]
            IN  Dot(plane, corner) + plane[4] >= 0

C9_Visibility ==
    /\ visibleChunks \subseteq LoadedKeys
    /\ AfterUpdate =>
          /\ visibleChunks = { k \in LoadedKeys :
                                 C9_WithinDistance(k) /\ C9_InFrustum(k) }
          /\ \A k \in LoadedKeys : ChunkOf(k).visible <=> k \in visibleChunks

C9_Witness ==
    /\ AfterUpdate
    /\ settings.enableDistanceCulling
    /\ settings.enableFrustumCulling
    /\ last.args.frustumPlanes # Null
    /\ visibleChunks # {}
    /\ \E k \in LoadedKeys : ~ C9_WithinDistance(k)
    /\ \E k \in LoadedKeys : C9_WithinDistance(k) /\ ~ C9_InFrustum(k)

\* C10: updateSettings with a new chunk grid resolution leaves the set of
\* loaded keys as it was and every one of those chunks rebuilt at the new
\* resolution.
C10_RegeneratesLoaded ==
    (last.op = "updateSettings" /\ last.pre.chunkSize # chunkSize) =>
        /\ LoadedKeys = Range(last.pre.loadedChunks)
        /\ \A k \in LoadedKeys :
              ChunkOf(k).vertexCount
                  = Resolution(chunkSize, ChunkOf(k).lod)
                    * Resolution(chunkSize, ChunkOf(k).lod)

\* C11: a misuse of the configuration (chunk size zero or negative, zero LOD
\* levels) handed to updateSettings is rejected when it is applied: the
\* configuration (chunkSize, settings), the loaded keys, the registry and
\* the GPU buffers are as before the call, and the chunk size in force is
\* positive in every state.
Misuse(s) ==
    \/ ("chunkSize" \in DOMAIN s /\ s.chunkSize <= 0)
    \/ ("lodLevels" \in DOMAIN s /\ s.lodLevels <= 0)

C11_MisuseRejected ==
    /\ chunkSize > 0
    /\ (last.op = "updateSettings" /\ Misuse(last.args.settings)) =>
          /\ chunkSize = last.pre.chunkSize
          /\ settings = last.pre.settings
          /\ loadedChunks = last.pre.loadedChunks
          /\ gl = last.pre.gl

\* C12: a chunk whose buffer allocation failed is generated again by the
\* next update: after an update that ran with the context available and
\* repeats the anchor of the update before it, every loaded chunk has both
\* of its GPU buffers.
C12_RetriedNextUpdate ==
    (/\ last.op = "update"
     /\ ~ last.pre.gl.lost
     /\ last.pre.op = "update"
     /\ last.pre.args.cameraPosition = last.args.cameraPosition) =>
        \A k \in LoadedKeys :
            /\ ChunkOf(k).buffers.vertices # 0
            /\ ChunkOf(k).buffers.indices # 0

\* ------------------------------------------------------- road vocabulary

IsPrefix(a, b) == Len(a) <= Len(b) /\ SubSeq(b, 1, Len(a)) = a

\* the entries of a kind in the log of the last road call, in order
RoadLog(kind) == SelectSeq(roadLast.log, LAMBDA e : e[1] = kind)

\* the path before the last road call (the constructor starts from the origin)
OldPath == IF roadLast.pre = Null THEN << <<0, 0, 0>> >> ELSE roadLast.pre.path

\* squared distance in the XZ projection
XZDist2(a, b) == (a[1] - b[1]) * (a[1] - b[1]) + (a[3] - b[3]) * (a[3] - b[3])

\* the buffer objects the segments of the list refer to
LiveBuffers ==
    { road.segments[i].buffers.vertices : i \in DOMAIN road.segments }
    \cup { road.segments[i].buffers.indices : i \in DOMAIN road.segments }

\* C13: the road path never shrinks: over every call (update, extendRoad,
\* cullOldSegments, updateSettings) the earlier path is a prefix of the
\* later one, also when segments over its waypoints are culled.
C13_PathNeverShrinks == [][IsPrefix(road.path, road'.path)]_vars

\* a call that culled segments, with a waypoint out of the culling range
C13_Witness ==
    /\ roadLast.op \in {"update", "cullOldSegments"}
    /\ \E i \in DOMAIN RoadLog("cull") : RoadLog("cull")[i][2] > 0
    /\ \E k \in DOMAIN road.path :
          Dist2(roadLast.args.vehiclePosition, road.path[k])
            > 4 * road.generationDistance * road.generationDistance
    /\ IsPrefix(roadLast.pre.path, road.path)

\* C14: extendRoad(distance) with distance > 0 appends exactly
\* ceil(distance / segmentLength) waypoints, each segmentLength from its
\* predecessor in the XZ projection, and lastGeneratedPosition is the last
\* waypoint appended; the call returns.
C14_ExtendAppends ==
    (roadLast.op = "extendRoad" /\ roadLast.args.distance > 0) =>
        LET n == (roadLast.args.distance + road.segmentLength - 1)
                    \div road.segmentLength
        IN  /\ Len(road.path) = Len(OldPath) + n
            /\ IsPrefix(OldPath, road.path)
            /\ \A k \in (Len(OldPath) + 1)..Len(road.path) :
                  XZDist2(road.path[k], road.path[k - 1])
                    = road.segmentLength * road.segmentLength
            /\ road.lastGeneratedPosition = road.path[Len(road.path)]

\* extendRoad(120) has appended three waypoints
C14_Witness ==
    /\ roadLast.op = "extendRoad"
    /\ roadLast.args.distance = 120
    /\ Len(road.path) = Len(OldPath) + 3
    /\ road.lastGeneratedPosition = road.path[Len(road.path)]

\* the anchor of the last update is nearer than half the generation distance
\* to the last generated waypoint
NearEnd ==
    4 * Dist2(roadLast.pre.lastGeneratedPosition, roadLast.args.vehiclePosition)
      < road.generationDistance * road.generationDistance

\* C15: update(anchor) extends the road exactly when the anchor is nearer
\* than half of generationDistance to the last generated waypoint, and then
\* by one extendRoad(generationDistance / 2); otherwise path, spline and
\* lastGeneratedPosition are as before the update.
C15_ExtendsWhenNear ==
    roadLast.op = "update" =>
        /\ NearEnd =>
              /\ RoadLog("extend") = << <<"extend", road.generationDistance \div 2>> >>
              /\ Len(road.path) > Len(roadLast.pre.path)
        /\ ~ NearEnd =>
              /\ RoadLog("extend") = <<>>
              /\ road.path = roadLast.pre.path
              /\ road.spline = roadLast.pre.spline
              /\ road.lastGeneratedPosition = roadLast.pre.lastGeneratedPosition

\* an update near the end of the road, which extended it
C15_Witness ==
    /\ roadLast.op = "update"
    /\ NearEnd
    /\ Len(road.path) = Len(roadLast.pre.path) + 10

\* C16: after update(anchor) no segment of the list has its box centre
\* farther than 2 x generationDistance from the anchor, every buffer of a
\* segment no longer in the list has been deleted exactly once, and no
\* segment of the list refers to a deleted buffer, also in updates that
\* extend the road before culling.
C16_CulledAndReleased ==
    roadLast.op = "update" =>
        /\ \A i \in DOMAIN road.segments :
              Dist2(roadLast.args.vehiclePosition, road.segments[i].bounds.center)
                <= 4 * road.generationDistance * road.generationDistance
        /\ \A b \in 1..road.gl.created :
              road.gl.deletes[b] = (IF b \in LiveBuffers THEN 0 ELSE 1)
        /\ Cardinality(LiveBuffers) = 2 * Len(road.segments)

\* an update that extended the road and then culled segments
C16_Witness ==
    /\ roadLast.op = "update"
    /\ RoadLog("extend") # <<>>
    /\ \E i \in DOMAIN RoadLog("cull") : RoadLog("cull")[i][2] > 0
    /\ road.segments # <<>>

Pow2(k) == IF k = 0 THEN 1 ELSE IF k = 1 THEN 2 ELSE IF k = 2 THEN 4 ELSE 8

\* C18: a generated chunk at LOD k has r x r vertices and 2 x (r-1) x (r-1)
\* triangles for r = max(8, chunkSize >> k), and every index of its index
\* list is a vertex of the chunk, 0 <= index < r x r.
C18_GridGeometry ==
    mesh.generated =>
        LET shifted == mesh.chunkSize \div Pow2(mesh.lod)
            r == IF shifted > 8 THEN shifted ELSE 8
        IN  /\ mesh.vertexCount = r * r
            /\ mesh.triangleCount = 2 * (r - 1) * (r - 1)
            /\ mesh.indexCount = 3 * mesh.triangleCount
            /\ \A z \in DOMAIN mesh.indices : \A x \in DOMAIN mesh.indices[z] :
                  \A j \in 1..6 :
                      mesh.indices[z][x][j] >= 0 /\ mesh.indices[z][x][j] < r * r

\* the chunk of the default chunkSize 128 at LOD 0: 128 x 128 vertices,
\* 127 x 127 x 2 triangles
C18_Witness ==
    /\ mesh.generated
    /\ mesh.chunkSize = 128
    /\ mesh.lod = 0
    /\ mesh.vertexCount = 128 * 128
    /\ mesh.triangleCount = 127 * 127 * 2

\* C19: isOnRoad(worldPos) without a tolerance is true exactly when the
\* distance getRoadInfo returns is at most roadWidth / 2, and getRoadHeight
\* returns a height exactly for such points and null otherwise.
C19_HalfWidth ==
    roadLast.op \in {"isOnRoad", "getRoadHeight"} =>
        LET info == getRoadInfo(road, roadLast.args.worldPos)
            within == 4 * info.distance2 <= road.roadWidth * road.roadWidth
        IN  /\ roadLast.op = "isOnRoad" => (roadLast.result <=> within)
            /\ roadLast.op = "getRoadHeight" => ((roadLast.result # Null) <=> within)

FracLt(a, b) == a.n * b.d < b.n * a.d

FracSub(a, b) == Frac(a.n * b.d - b.n * a.d, a.d * b.d)

\* C20: the refinement of getRoadInfo steps the parameter strictly finer
\* than the coarse pass and so evaluates parameters the coarse pass did
\* not; the returned t is in [0, 1] and the returned distance is not greater
\* than the best coarse distance.
C20_FinerRefinement ==
    roadLast.op = "getRoadInfo" =>
        LET r == roadLast.result
            coarseStep == FracSub(r.coarse[2], r.coarse[1])
        IN  /\ \A k \in 1..(Len(r.refined) - 1) :
                  FracLt(r.refined[k], r.refined[k + 1]) =>
                      FracLt(FracSub(r.refined[k + 1], r.refined[k]), coarseStep)
            /\ \E k \in DOMAIN r.refined : \A c \in DOMAIN r.coarse :
                  ~ FracEq(r.refined[k], r.coarse[c])
            /\ FracLe(Frac(0, 1), r.t) /\ FracLe(r.t, Frac(1, 1))
            /\ r.distance2 <= r.coarseDistance2

\* what does hold of getRoadInfo: t is in [0, 1] and the distance is not
\* greater than the best coarse distance
C20_WithinCoarse ==
    roadLast.op = "getRoadInfo" =>
        /\ FracLe(Frac(0, 1), roadLast.result.t)
        /\ FracLe(roadLast.result.t, Frac(1, 1))
        /\ roadLast.result.distance2 <= roadLast.result.coarseDistance2

\* C21: after every extendRoad the mesh is regenerated over the full path:
\* the buffers of every segment that existed before are deleted, and (path
\* of at least 4 points) the parameter ranges of the new segments start at
\* 0, follow one another without gap or overlap and end at 1.
C21_FullyRegenerated ==
    (roadLast.op = "extendRoad" /\ roadLast.pre # Null) =>
        /\ \A i \in DOMAIN roadLast.pre.segments :
              /\ road.gl.deletes[roadLast.pre.segments[i].buffers.vertices] = 1
              /\ road.gl.deletes[roadLast.pre.segments[i].buffers.indices] = 1
        /\ Len(road.path) >= 4 =>
              /\ road.segments # <<>>
              /\ FracEq(road.segments[1].startT, Frac(0, 1))
              /\ \A i \in DOMAIN road.segments :
                    FracLt(road.segments[i].startT, road.segments[i].endT)
              /\ \A i \in 1..(Len(road.segments) - 1) :
                    FracEq(road.segments[i].endT, road.segments[i + 1].startT)
              /\ FracEq(road.segments[Len(road.segments)].endT, Frac(1, 1))

\* what does hold of the regenerated segments: the old buffers are deleted
\* and the ranges are contiguous from 0 up to (n - 1) / n for a path of n
\* waypoints, one range of 1 / n per spline piece
C21_RegeneratedShort ==
    (roadLast.op = "extendRoad" /\ roadLast.pre # Null) =>
        /\ \A i \in DOMAIN roadLast.pre.segments :
              /\ road.gl.deletes[roadLast.pre.segments[i].buffers.vertices] = 1
              /\ road.gl.deletes[roadLast.pre.segments[i].buffers.indices] = 1
        /\ Len(road.path) >= 4 =>
              /\ Len(road.segments) = Len(road.path) - 1
              /\ \A i \in DOMAIN road.segments :
                    /\ FracEq(road.segments[i].startT, Frac(i - 1, Len(road.path)))
                    /\ FracEq(road.segments[i].endT, Frac(i, Len(road.path)))

\* the label the priority order of the claim gives to channel values, each
\* rule stated with the negation of the rules before it
LabelByPriority(t, h, e) ==
    { l \in {"mountain", "desert", "forest", "city", "plains"} :
        \/ l = "mountain" /\ (e > 6000 \/ t < -3000)
        \/ l = "desert" /\ e <= 6000 /\ t >= -3000 /\ h < -3000 /\ t > 2000
        \/ l = "forest" /\ e <= 6000 /\ t >= -3000 /\ ~ (h < -3000 /\ t > 2000)
                        /\ h > 4000 /\ t > -1000
        \/ l = "city" /\ e <= 6000 /\ t >= -3000 /\ ~ (h < -3000 /\ t > 2000)
                      /\ ~ (h > 4000 /\ t > -1000)
                      /\ e < 1000 /\ -3000 < t /\ t < 3000
        \/ l = "plains" /\ e <= 6000 /\ t >= -3000 /\ ~ (h < -3000 /\ t > 2000)
                        /\ ~ (h > 4000 /\ t > -1000)
                        /\ ~ (e < 1000 /\ -3000 < t /\ t < 3000) }

\* C22: getBiome returns the label of the first rule that matches, in the
\* order mountain (elevation), mountain (temperature), desert, forest, city,
\* plains; for all channel values that is exactly one label, and it is one
\* of the five labels with an id in TerrainSystem.biomes, whose id is stored.
C22_FirstMatch ==
    noiseLast # Null =>
        /\ LabelByPriority(noise.temp, noise.humidity, noise.elevation)
             = {noiseLast.biome}
        /\ noiseLast.known
        /\ noiseLast.biome \in {"plains", "forest", "desert", "mountain", "city"}
        /\ noiseLast.biomeId = biomes[noiseLast.biome]

\* channel values that match both the forest rule and the city rule, and
\* are classified as forest
C22_Witness ==
    /\ noiseLast # Null
    /\ noise.humidity > 4000 /\ noise.temp > -1000
    /\ noise.elevation < 1000 /\ Abs(noise.temp) < 3000
    /\ noiseLast.biome = "forest"
    /\ noiseLast.biomeId = 1

\* ------------------------------------------------------ spline vocabulary

\* control point k of the spline, counted from 0
ControlPoint(k) == road.points[k + 1]

\* C23: for a spline over n >= 2 control points getPoint(k / (n - 1)) is
\* control point k for every k in 0..n-1, the end of every cubic piece is
\* the start of the next one, and for every t in [0, 1] the four indices
\* read lie in 0..n-1.
C23_ThroughControlPoints ==
    (roadLast # Null /\ Len(road.points) >= 2) =>
        LET n == Len(road.points) IN
        /\ roadLast.op = "getPoint" =>
              /\ \A k \in 0..(n - 1) :
                    FracEq(roadLast.args.t, Frac(k, n - 1)) =>
                        roadLast.result = ControlPoint(k)
              /\ \A i \in 1..4 :
                    controlIndices(road.points,
                                   segmentOf(road.points, roadLast.args.t))[i]
                      \in 0..(n - 1)
        /\ (roadLast.op = "getSegmentPoint" /\ roadLast.args.t = One
              /\ roadLast.args.segment + 2 < n) =>
              /\ roadLast.result = ControlPoint(roadLast.args.segment + 1)
              /\ roadLast.result
                   = getSegmentPoint(road.points, roadLast.args.segment + 1, 0)
        /\ (roadLast.op = "getSegmentPoint" /\ roadLast.args.t = 0) =>
              roadLast.result = ControlPoint(roadLast.args.segment)

\* getPoint(3/4) on the spline of five waypoints has returned the fourth one
C23_Witness ==
    /\ roadLast # Null
    /\ Len(road.points) = 5
    /\ roadLast.op = "getPoint"
    /\ roadLast.args.t = Frac(3, 4)
    /\ roadLast.result = SplinePoints.D

\* the squared length of a fixed-point vector is 1 within one percent
IsUnit(v) ==
    LET len2 == v[1] * v[1] + v[2] * v[2] + v[3] * v[3]
    IN  Abs(len2 - One * One) <= (One * One) \div 100

\* the control points the last query read are one and the same point
Coincident ==
    \A i \in 1..4 :
        ControlPoint(controlIndices(road.points,
                                    segmentOf(road.points, roadLast.args.t))[i])
          = ControlPoint(segmentOf(road.points, roadLast.args.t))

\* C24: getTangent never returns a zero vector: it returns the forward
\* vector (0, 0, 1) for fewer than two control points and for control points
\* that make the derivative zero-length (coincident points), and a vector of
\* unit length otherwise.
C24_TangentNeverZero ==
    (roadLast # Null /\ roadLast.op = "getTangent") =>
        /\ roadLast.result # <<0, 0, 0>>
        /\ Len(road.points) < 2 => roadLast.result = <<0, 0, One>>
        /\ (Len(road.points) >= 2 /\ Coincident) => roadLast.result = <<0, 0, One>>
        /\ IsUnit(roadLast.result)

\* what does hold of getTangent: the forward vector for fewer than two
\* control points, else a vector of unit length or the zero vector
C24_UnitOrZero ==
    (roadLast # Null /\ roadLast.op = "getTangent") =>
        /\ Len(road.points) < 2 => roadLast.result = <<0, 0, One>>
        /\ IsUnit(roadLast.result) \/ roadLast.result = <<0, 0, 0>>
        /\ (Len(road.points) >= 2 /\ Coincident) => roadLast.result = <<0, 0, 0>>

\* the gap between the height of waypoint k and the height H + 1 the road
\* follows on the flat terrain (fixed-point)
Gap(r, k) == r.heights[k] - (r.terrain.height + One)

HeightTolerance == One \div 10

\* what does hold of the heights on flat terrain: at every waypoint appended
\* by extendRoad the gap to H + 1 is (1 - terrainFollowing) times the gap of
\* its predecessor (to the last decimal held), is not larger and has not
\* changed sign
C25_GapShrinks ==
    (roadLast.op \in {"extendRoad", "constructor"}) =>
        \A k \in (Len(OldPath) + 1)..Len(road.path) :
            /\ Abs(Gap(road, k) - Mul(Gap(road, k - 1), One - road.terrainFollowing)) <= 1
            /\ Abs(Gap(road, k)) <= Abs(Gap(road, k - 1))
            /\ \/ Gap(road, k) >= 0 /\ Gap(road, k - 1) >= 0
               \/ Gap(road, k) <= 0 /\ Gap(road, k - 1) <= 0
            /\ road.path[k][2] = Floor(road.heights[k])

\* C25: on flat terrain of height H every waypoint appended by extendRoad
\* has the height lerp(previous height, H + 1, terrainFollowing): the gap to
\* H + 1 shrinks by the factor 1 - terrainFollowing, never grows and never
\* overshoots; after several extensions every waypoint of the path is
\* within a small tolerance of H + 1.
C25_FollowsFlatTerrain ==
    /\ C25_GapShrinks
    /\ (roadLast.op = "extendRoad" /\ roadCalls >= 2) =>
          \A k \in DOMAIN road.heights : Abs(Gap(road, k)) <= HeightTolerance

\* C26: the table of generatePermutation has 512 entries, the first 256 a
\* permutation of 0..255 and the last 256 a copy of them, and every index
\* perlin2D reads (X, X+1, A, A+1, B, B+1, AA, AB, BA, BB) lies in 0..511.
C26_TableInRange ==
    /\ DOMAIN noise.permutation = 1..512
    /\ { noise.permutation[i] : i \in 1..256 } = 0..255
    /\ \A i \in 1..256 : noise.permutation[256 + i] = noise.permutation[i]
    /\ noiseLast # Null =>
          \A f \in DOMAIN noiseLast.indices : noiseLast.indices[f] \in 0..511

\* perlin2D at a negative x just below 0: X is 255 and X + 1 reads the first
\* entry of the copied half
C26_Witness ==
    /\ noiseLast # Null
    /\ noiseLast.args[1] < 0
    /\ noiseLast.indices.X = 255
    /\ noiseLast.indices.X1 = 256
    /\ noiseLast.indices.A1 > 256

\* C27: the number of active road segments never exceeds maxSegments, after
\* any number of updates that extend the road and after
\* updateSettings({roadWidth}).
C27_SegmentsBounded == Len(road.segments) <= road.maxSegments

\* what does hold in the drive: after every update the list has at most
\* maxSegments segments, the others being culled
C27_BoundedAfterUpdate ==
    roadLast.op = "update" => Len(road.segments) <= road.maxSegments

\* C28: after every update every loaded chunk key is an integer grid pair
\* and the chunk of the anchor is among the loaded keys, for every render
\* distance the graphics settings can apply.
C28_AnchorChunkLoaded ==
    AfterUpdate =>
        /\ \A k \in LoadedKeys : IsGridKey(k)
        /\ CamChunk \in LoadedKeys

\* what does hold: the same when the render distance is a whole number of
\* chunks
C28_WholeChunks ==
    (AfterUpdate /\ renderDistance % chunkWorldSize = 0) =>
        /\ \A k \in LoadedKeys : IsGridKey(k)
        /\ CamChunk \in LoadedKeys

\* C29: every vertex index of a generated chunk is stored unchanged in the
\* 16-bit index buffer: for every chunk size and every LOD the largest
\* index, resolution^2 - 1, is below 2^16 and no stored index has wrapped.
C29_IndicesUnwrapped ==
    mesh.generated =>
        LET r == Resolution(mesh.chunkSize, mesh.lod) IN
        /\ r * r - 1 < 65536
        /\ \A z \in DOMAIN mesh.indices : \A x \in DOMAIN mesh.indices[z] :
              mesh.indices[z][x]
                = <<z * r + x, (z + 1) * r + x, z * r + x + 1,
                    z * r + x + 1, (z + 1) * r + x, (z + 1) * r + x + 1>>

\* what does hold: no index wraps for resolutions up to 256
C29_UnwrappedUpTo256 ==
    (mesh.generated /\ Resolution(mesh.chunkSize, mesh.lod) <= 256) =>
        LET r == Resolution(mesh.chunkSize, mesh.lod) IN
        \A z \in DOMAIN mesh.indices : \A x \in DOMAIN mesh.indices[z] :
            mesh.indices[z][x]
              = <<z * r + x, (z + 1) * r + x, z * r + x + 1,
                  z * r + x + 1, (z + 1) * r + x, (z + 1) * r + x + 1>>

\* the last two road calls were extendRoad(a) and extendRoad(b)
TwoExtensions ==
    /\ roadLast.op = "extendRoad"
    /\ "before" \in DOMAIN roadLast
    /\ roadLast.before.op = "extendRoad"

\* C30: for positive multiples a and b of segmentLength, extendRoad(a)
\* followed by extendRoad(b) leaves the path, the last generated position
\* and the current direction that one extendRoad(a + b) from the same state
\* leaves.
C30_ExtensionComposes ==
    TwoExtensions =>
        \E whole \in { extendRoad(roadLast.before.pre,
                                  roadLast.before.args.distance
                                    + roadLast.args.distance) } :
            /\ road.path = whole.path
            /\ road.heights = whole.heights
            /\ road.lastGeneratedPosition = whole.lastGeneratedPosition
            /\ road.currentDirection = whole.currentDirection

\* extendRoad(50) then extendRoad(100): three waypoints more, and a heading
\* that has turned
C30_Witness ==
    /\ TwoExtensions
    /\ roadLast.before.args.distance = 50
    /\ roadLast.args.distance = 100
    /\ Len(road.path) = Len(roadLast.before.pre.path) + 3
    /\ road.currentDirection # roadLast.before.pre.currentDirection
    /\ roadLast.pre.currentDirection # roadLast.before.pre.currentDirection

====
